---------------------------- MODULE Spec2Model ----------------------------
(***************************************************************************)
(* Discovery & synchronization engine of spatial-selecta.                  *)
(*                                                                         *)
(*   backend/apple_music_client.py  catalog client, classification,        *)
(*                                  discovery, region availability         *)
(*   backend/scheduler.py           sync engine, scheduled jobs, scheduler *)
(*   backend/models.py              Track, RegionAvailability, Engineer,   *)
(*                                  TrackCredit                            *)
(*   backend/utils/apple_music.py   developer token and its cache          *)
(*                                                                         *)
(* Nine specifications share the storage variables:                        *)
(*   Spec       the operations on storage, one invocation at a time        *)
(*   SchedSpec  the scheduler's threads and the request handler, with the  *)
(*              invocations' sessions interleaved                          *)
(*   ClientSpec the catalog client's, the scraper's and the jobs'          *)
(*              functions applied to drawn inputs                          *)
(*   GateSpec   the credits job's page requests in time                    *)
(*   JobSpec    runs of the credits job, the silent-upgrade job and the    *)
(*              import on stored tables                                    *)
(*   TokenSpec  calls of get_apple_music_token in time                     *)
(*   PageSpec   one get_playlist_tracks call, request by request           *)
(*   LiveSpec   the credits job run without end, under fairness of the run *)
(*   LifeSpec   start_scheduler and stop_scheduler in any order            *)
(***************************************************************************)
EXTENDS Integers, Sequences, FiniteSets, TLC

(***************************************************************************)
(* Values.  Python None is NULL for strings and NoDate for datetimes; a    *)
(* JSON value is a record [kind, items]; a text that the code searches is  *)
(* a tuple of characters.                                                  *)
(***************************************************************************)
NULL == "None"

DT(n) == [kind |-> "datetime", val |-> n]
NoDate == [kind |-> "None", val |-> 0]

JAbsent == [kind |-> "absent", items |-> <<>>]
JList(xs) == [kind |-> "list", items |-> xs]
JDict(xs) == [kind |-> "dict", items |-> xs]
JStr(s) == [kind |-> "str", items |-> <<s>>]

UpperCase == <<"A", "B", "C", "D", "E", "F", "G", "H", "I", "J", "K", "L", "M",
               "N", "O", "P", "Q", "R", "S", "T", "U", "V", "W", "X", "Y", "Z">>
LowerCase == <<"a", "b", "c", "d", "e", "f", "g", "h", "i", "j", "k", "l", "m",
               "n", "o", "p", "q", "r", "s", "t", "u", "v", "w", "x", "y", "z">>

keep_case(ch) == ch

\* str.lower(), one character
lower(ch) ==
    IF \E i \in DOMAIN UpperCase : UpperCase[i] = ch
    THEN LowerCase[CHOOSE i \in DOMAIN UpperCase : UpperCase[i] = ch]
    ELSE ch

LowerStr(s) == [i \in DOMAIN s |-> lower(s[i])]

\* Python's `needle in text` on strings
Contains(text, needle) ==
    \E i \in 0..(Len(text) - Len(needle)) :
        \A k \in 1..Len(needle) : text[i + k] = needle[k]

cAtmos == <<"a", "t", "m", "o", "s">>
cDolby == <<"d", "o", "l", "b", "y">>
cSpatial == <<"s", "p", "a", "t", "i", "a", "l">>

\* any(...) over a list, in order; the loops break at the first match
AnyMatch(items, pats) ==
    \E i \in DOMAIN items : \E p \in pats : Contains(LowerStr(items[i]), p)

(***************************************************************************)
(* AppleMusicClient.check_spatial_audio_support                            *)
(* track_data is [id, attributes]; attributes is NoAttributes when the key *)
(* is missing.                                                             *)
(***************************************************************************)
NoAttributes == [kind |-> "absent"]
NullAttributes == [kind |-> "null"]

\* `"audioVariants" in attributes` raises TypeError when attributes is null
Raises(track_data) == track_data.attributes.kind = "null"

\* result = {...}: the result before any signal is found
EmptyResult ==
    [has_spatial_audio |-> FALSE, has_dolby_atmos |-> FALSE,
     audio_variants |-> JList(<<>>)]

\* the audioVariants signal: a list's elements or an object's values
ByVariants(attributes) ==
    /\ attributes.audioVariants.kind \in {"list", "dict"}
    /\ AnyMatch(attributes.audioVariants.items, {cAtmos, cDolby})

\* the audioTraits signal: a list's elements or a string
ByTraits(attributes) ==
    /\ attributes.audioTraits.kind \in {"list", "str"}
    /\ AnyMatch(attributes.audioTraits.items, {cSpatial, cAtmos})

\* a classification that takes a track without attributes for spatial
check_spatial_by_default(track_data) ==
    LET attributes == track_data.attributes
    IN  IF attributes.kind = "absent"
        THEN [EmptyResult EXCEPT !.has_spatial_audio = TRUE]
        ELSE [has_spatial_audio |-> TRUE,
              has_dolby_atmos |-> ByVariants(attributes) \/ ByTraits(attributes),
              audio_variants |-> attributes.audioVariants]

\* a classification whose variants signal sets has_dolby_atmos alone
check_atmos_only(track_data) ==
    LET attributes == track_data.attributes
    IN  IF attributes.kind = "absent" THEN EmptyResult
        ELSE [has_spatial_audio |-> FALSE,
              has_dolby_atmos |-> ByVariants(attributes),
              audio_variants |-> attributes.audioVariants]

check_spatial_audio_support(track_data) ==
    LET attributes == track_data.attributes
    IN  IF attributes.kind = "absent" THEN EmptyResult
        ELSE
        LET result1 ==
                IF attributes.audioVariants.kind = "absent" THEN EmptyResult
                ELSE [has_spatial_audio |-> ByVariants(attributes),
                      has_dolby_atmos |-> ByVariants(attributes),
                      audio_variants |-> attributes.audioVariants]
        IN  IF /\ ~result1.has_spatial_audio
               /\ attributes.audioTraits.kind # "absent"
               /\ ByTraits(attributes)
            THEN [result1 EXCEPT !.has_spatial_audio = TRUE,
                                 !.has_dolby_atmos = TRUE]
            ELSE result1

(***************************************************************************)
(* AppleMusicClient._extract_track_info and its helpers.                   *)
(* In attributes a missing string key is NULL, a missing list is <<>>, a   *)
(* missing releaseDate is [kind |-> "absent"].                             *)
(***************************************************************************)
\* attributes.get(key, default) for the string keys; attributes defaults
\* to {} when the track has none
Attr(track_data, key, default) ==
    IF track_data.attributes.kind = "dict"
    THEN IF track_data.attributes[key] = NULL
         THEN default ELSE track_data.attributes[key]
    ELSE default

ListAttr(track_data, key) ==
    IF track_data.attributes.kind = "dict"
    THEN track_data.attributes[key] ELSE <<>>

\* releaseDate is [kind |-> "date", val |-> n] for a date string that
\* parses; a missing or unparsable one gives datetime.now()
_parse_release_date(track_data, now) ==
    IF track_data.attributes.kind = "dict"
       /\ track_data.attributes.releaseDate.kind = "date"
    THEN DT(track_data.attributes.releaseDate.val)
    ELSE DT(now)

\* three rows of the genre table, in its order
genre_emojis ==
    << << <<"P", "o", "p">>, "notes" >>,
       << <<"R", "o", "c", "k">>, "guitar" >>,
       << <<"J", "a", "z", "z">>, "saxophone" >> >>

_get_album_art_emoji(genres) ==
    LET partial(g, k) == Contains(LowerStr(genres[g]), LowerStr(genre_emojis[k][1]))
        exact(g, k) == genres[g] = genre_emojis[k][1]
        matching == { g \in DOMAIN genres :
                        \E k \in DOMAIN genre_emojis : exact(g, k) \/ partial(g, k) }
    IN  IF matching = {} THEN "notes"
        ELSE LET g == CHOOSE x \in matching : \A y \in matching : x <= y
                 ks == { k \in DOMAIN genre_emojis : exact(g, k) }
                 kp == { k \in DOMAIN genre_emojis : partial(g, k) }
                 k == IF ks # {} THEN CHOOSE x \in ks : TRUE
                      ELSE CHOOSE x \in kp : \A y \in kp : x <= y
             IN  genre_emojis[k][2]

\* url_template.replace("{w}", "300").replace("{h}", "300"), the template
\* given by its pieces; no artwork or an empty template gives None
ArtworkUrl(artwork) ==
    IF artwork = <<>> THEN <<>>
    ELSE [i \in DOMAIN artwork |->
            IF artwork[i] \in {"{w}", "{h}"} THEN "300" ELSE artwork[i]]

\* a DiscoveredTrack has no "region_availability" key until the region
\* check attaches one
NoRegions == [present |-> FALSE, items |-> <<>>]

\* the track information with the time of discovery as the Atmos date
_extract_track_info_found(track_data, spatial_info, now) ==
    LET release_date == _parse_release_date(track_data, now)
    IN  [apple_music_id |-> track_data.id,
         title |-> Attr(track_data, "name", "Unknown"),
         artist |-> Attr(track_data, "artistName", "Unknown"),
         album |-> Attr(track_data, "albumName", "Unknown"),
         format |-> IF spatial_info.has_dolby_atmos
                    THEN "Dolby Atmos" ELSE "Spatial Audio",
         platform |-> "Apple Music",
         release_date |-> release_date,
         atmos_release_date |-> IF spatial_info.has_dolby_atmos
                                THEN DT(now) ELSE NoDate,
         album_art |-> _get_album_art_emoji(ListAttr(track_data, "genreNames")),
         music_link |-> Attr(track_data, "url", NULL),
         metadata |-> [genre |-> ListAttr(track_data, "genreNames"),
                       isrc |-> Attr(track_data, "isrc", NULL),
                       audio_variants |-> spatial_info.audio_variants,
                       artwork_url |-> ArtworkUrl(ListAttr(track_data, "artwork"))],
         region_availability |-> NoRegions]

_extract_track_info(track_data, spatial_info, now) ==
    LET release_date == _parse_release_date(track_data, now)
    IN  [apple_music_id |-> track_data.id,
         title |-> Attr(track_data, "name", "Unknown"),
         artist |-> Attr(track_data, "artistName", "Unknown"),
         album |-> Attr(track_data, "albumName", "Unknown"),
         format |-> IF spatial_info.has_dolby_atmos
                    THEN "Dolby Atmos" ELSE "Spatial Audio",
         platform |-> "Apple Music",
         release_date |-> release_date,
         atmos_release_date |-> IF spatial_info.has_dolby_atmos
                                THEN release_date ELSE NoDate,
         album_art |-> _get_album_art_emoji(ListAttr(track_data, "genreNames")),
         music_link |-> Attr(track_data, "url", NULL),
         metadata |-> [genre |-> ListAttr(track_data, "genreNames"),
                       isrc |-> Attr(track_data, "isrc", NULL),
                       audio_variants |-> spatial_info.audio_variants,
                       artwork_url |-> ArtworkUrl(ListAttr(track_data, "artwork"))],
         region_availability |-> NoRegions]

NoTracks == [out |-> <<>>, seen |-> {}, raised |-> FALSE]

(***************************************************************************)
(* The remote catalog, as one invocation sees it:                          *)
(*   playlists[pid]  [status, items, page]   page: tracks per response     *)
(*   charts          [status, albums]        album: [id, status, items]    *)
(*   search[term]    [status, items]                                       *)
(*   songs[sf]       [status, items]         the storefront's songs        *)
(* status "error" is a request that _make_request answers with None        *)
(* (timeout, HTTP error, connection error, no token).                      *)
(***************************************************************************)
Min(a, b) == IF a < b THEN a ELSE b

\* Python None as a response
Failed == [status |-> "error", items |-> <<>>, page |-> 100]

\* _make_request without its last except clause: a body that is not JSON
\* raises
_make_request_uncaught(developer_token, reply) ==
    IF developer_token = NULL THEN Failed
    ELSE IF reply.status = "invalid_json" THEN [Failed EXCEPT !.status = "raised"]
    ELSE IF reply.status # "ok" THEN Failed
    ELSE reply

\* _make_request: reply is what the server does with the request, status
\* "ok" a 2xx response with its JSON, "timeout", "http_error" (a non-2xx
\* response), "connection_error" or "invalid_json" otherwise; every
\* exception is caught and answered with None, and so is a missing token
_make_request(developer_token, reply) ==
    IF developer_token = NULL THEN Failed
    ELSE IF reply.status # "ok" THEN Failed
    ELSE reply

\* the fetch functions call _make_request outside any try: what it raises
\* leaves them
Propagates(response) == response.status = "raised"

\* get_playlist_tracks before its limit fix: every next cursor is followed
\* with the whole limit
PlaylistCallsFullLimit(playlist, limit, offset) ==
    LET page[lim \in Int, off \in Nat] ==
            LET request == [limit |-> Min(lim, 100), offset |-> off]
            IN  IF playlist.status # "ok"
                THEN [tracks |-> <<>>, requests |-> <<request>>]
                ELSE
                LET asked == Min(Min(lim, 100), playlist.page)
                    tracks == SubSeq(playlist.items, off + 1,
                                     Min(off + asked, Len(playlist.items)))
                    next_url == off + Len(tracks) < Len(playlist.items)
                    more == page[lim, off + Len(tracks)]
                IN  IF next_url /\ Len(tracks) > 0
                    THEN [tracks |-> tracks \o more.tracks,
                          requests |-> <<request>> \o more.requests]
                    ELSE [tracks |-> tracks, requests |-> <<request>>]
    IN  page[limit, offset]

\* get_playlist_tracks with the requests it sends: the tracks it returns
\* and the limit[tracks] and offset[tracks] of each request, in order
PlaylistCalls(playlist, limit, offset) ==
    LET page[lim \in Int, off \in Nat] ==
            LET request == [limit |-> Min(lim, 100), offset |-> off]
            IN  IF playlist.status # "ok"
                THEN [tracks |-> <<>>, requests |-> <<request>>]
                ELSE
                LET asked == Min(Min(lim, 100), playlist.page)
                    tracks == SubSeq(playlist.items, off + 1,
                                     Min(off + asked, Len(playlist.items)))
                    next_url == off + Len(tracks) < Len(playlist.items)
                    remaining_limit == lim - Len(tracks)
                    more == page[remaining_limit, off + Len(tracks)]
                IN  IF next_url /\ remaining_limit > 0
                    THEN [tracks |-> tracks \o more.tracks,
                          requests |-> <<request>> \o more.requests]
                    ELSE [tracks |-> tracks, requests |-> <<request>>]
    IN  page[limit, offset]

get_playlist_tracks(playlist, limit, offset) ==
    PlaylistCalls(playlist, limit, offset).tracks

\* a for loop over items that carries acc from one item to the next; acc0
\* is a value when the loop starts (the test acc0 = acc0 has it evaluated)
\* and the body is applied to the value that the iteration before left
Fold(Body(_, _), items, acc0) ==
    LET iter[i \in 0..Len(items)] ==
            IF i = 0 THEN acc0
            ELSE CHOOSE next \in { Body(acc, items[i]) : acc \in {iter[i - 1]} } : TRUE
    IN  IF acc0 = acc0 THEN iter[Len(items)] ELSE acc0

\* the body of the per-track loop without the test of the classification
ScanTrackUnfiltered(acc, track, now) ==
    LET seen1 == [acc EXCEPT !.seen = @ \cup {track.id}]
        spatial_info == check_spatial_audio_support(track)
    IN  IF acc.raised \/ track.id \in acc.seen THEN acc
        ELSE IF Raises(track) THEN [seen1 EXCEPT !.raised = TRUE]
        ELSE [seen1 EXCEPT !.out =
                 Append(@, _extract_track_info(track, spatial_info, now))]

\* the body of the per-track loop of every discovery strategy; acc is
\* [out, seen, raised].  An exception leaves the loop: the enclosing try
\* logs it and goes on to the next playlist, album or search term.
ScanTrack(acc, track, now) ==
    LET seen1 == [acc EXCEPT !.seen = @ \cup {track.id}]
        spatial_info == check_spatial_audio_support(track)
    IN  IF acc.raised \/ track.id \in acc.seen THEN acc
        ELSE IF Raises(track) THEN [seen1 EXCEPT !.raised = TRUE]
        ELSE IF spatial_info.has_spatial_audio
             THEN [seen1 EXCEPT !.out =
                      Append(@, _extract_track_info(track, spatial_info, now))]
             ELSE seen1

\* the loop over one container's tracks without a try around it: what a
\* track raises ends the whole strategy
ScanTracksNoTry(tracks, acc, now) ==
    LET Body(a, track) == ScanTrack(a, track, now)
    IN  Fold(Body, tracks, acc)

\* the loop over one container's tracks, inside its try
ScanTracks(tracks, acc, now) ==
    LET Body(a, track) == ScanTrack(a, track, now)
    IN  [Fold(Body, tracks, acc) EXCEPT !.raised = FALSE]

\* the playlist lists, scaled down: two of the thirteen curated playlists,
\* one of the ten new-music playlists, one of the five chart playlists
SPATIAL_AUDIO_PLAYLISTS == <<"pl.hits", "pl.pop">>
NEW_MUSIC_PLAYLISTS == <<"pl.todays">>
CHART_PLAYLISTS == <<"pl.top100">>
TARGET_STOREFRONTS == <<"us", "gb", "jp", "de">>
chunk_size == 30

ScanPlaylists(catalog, pids, now) ==
    LET Body(acc, pid) ==
            ScanTracks(get_playlist_tracks(catalog.playlists[pid], 100, 0), acc, now)
    IN  Fold(Body, pids, NoTracks)

(***************************************************************************)
(* AppleMusicClient.get_catalog_tracks and check_region_availability       *)
(***************************************************************************)
\* ",".join(ids) raises TypeError on an id that is None
JoinRaises(ids) == \E i \in DOMAIN ids : ids[i] = NULL

get_catalog_tracks(store, ids) ==
    IF ids = <<>> \/ store.status # "ok" THEN <<>>
    ELSE SelectSeq(store.items, LAMBDA t : \E i \in DOMAIN ids : ids[i] = t.id)

\* found_tracks = {t.get("id"): t for t in tracks}: the last one of an id
Found(tracks, track_id) ==
    LET idx == { i \in DOMAIN tracks : tracks[i].id = track_id }
    IN  tracks[CHOOSE i \in idx : \A j \in idx : j <= i]

\* RegionStep had it test spatial before atmos
RegionStepSpatialFirst(catalog, track_ids, acc, sf, pos) ==
    LET storefront == TARGET_STOREFRONTS[sf]
        first == ((pos - 1) \div chunk_size) * chunk_size + 1
        final == Min(first + chunk_size - 1, Len(track_ids))
        chunk == SubSeq(track_ids, first, final)
        tracks == get_catalog_tracks(catalog.songs[storefront], chunk)
        track_id == track_ids[pos]
        is_available == \E i \in DOMAIN tracks : tracks[i].id = track_id
        spatial_info == check_spatial_audio_support(Found(tracks, track_id))
        format_info ==
            IF ~is_available THEN "Stereo"
            ELSE IF spatial_info.has_spatial_audio THEN "Spatial Audio"
            ELSE IF spatial_info.has_dolby_atmos THEN "Dolby Atmos"
            ELSE "Stereo"
        rec == [storefront |-> storefront, is_available |-> is_available,
                format |-> format_info]
    IN  IF pos <= acc.skip THEN acc
        ELSE IF JoinRaises(chunk) \/ (is_available /\ Raises(Found(tracks, track_id)))
        THEN [acc EXCEPT !.skip = final]
        ELSE [acc EXCEPT !.map[track_id] = Append(@, rec)]

\* RegionStep had an exception end the storefront's remaining chunks too
RegionStepAbort(catalog, track_ids, acc, sf, pos) ==
    LET storefront == TARGET_STOREFRONTS[sf]
        first == ((pos - 1) \div chunk_size) * chunk_size + 1
        final == Min(first + chunk_size - 1, Len(track_ids))
        chunk == SubSeq(track_ids, first, final)
        tracks == get_catalog_tracks(catalog.songs[storefront], chunk)
        track_id == track_ids[pos]
        is_available == \E i \in DOMAIN tracks : tracks[i].id = track_id
        spatial_info == check_spatial_audio_support(Found(tracks, track_id))
        format_info ==
            IF ~is_available THEN "Stereo"
            ELSE IF spatial_info.has_dolby_atmos THEN "Dolby Atmos"
            ELSE IF spatial_info.has_spatial_audio THEN "Spatial Audio"
            ELSE "Stereo"
        rec == [storefront |-> storefront, is_available |-> is_available,
                format |-> format_info]
    IN  IF pos <= acc.skip THEN acc
        ELSE IF JoinRaises(chunk) \/ (is_available /\ Raises(Found(tracks, track_id)))
        THEN [acc EXCEPT !.skip = Len(track_ids)]
        ELSE [acc EXCEPT !.map[track_id] = Append(@, rec)]

\* the body of the loops over storefronts, chunks and the chunk's ids, for
\* storefront number sf and the id at index pos of track_ids; acc is
\* [map, skip], skip the index up to which an exception abandoned the chunk
RegionStep(catalog, track_ids, acc, sf, pos) ==
    LET storefront == TARGET_STOREFRONTS[sf]
        first == ((pos - 1) \div chunk_size) * chunk_size + 1
        final == Min(first + chunk_size - 1, Len(track_ids))
        chunk == SubSeq(track_ids, first, final)
        tracks == get_catalog_tracks(catalog.songs[storefront], chunk)
        track_id == track_ids[pos]
        is_available == \E i \in DOMAIN tracks : tracks[i].id = track_id
        spatial_info == check_spatial_audio_support(Found(tracks, track_id))
        format_info ==
            IF ~is_available THEN "Stereo"
            ELSE IF spatial_info.has_dolby_atmos THEN "Dolby Atmos"
            ELSE IF spatial_info.has_spatial_audio THEN "Spatial Audio"
            ELSE "Stereo"
        rec == [storefront |-> storefront, is_available |-> is_available,
                format |-> format_info]
    IN  IF pos <= acc.skip THEN acc
        ELSE IF JoinRaises(chunk) \/ (is_available /\ Raises(Found(tracks, track_id)))
        THEN [acc EXCEPT !.skip = final]
        ELSE [acc EXCEPT !.map[track_id] = Append(@, rec)]

check_region_availability(catalog, track_ids) ==
    LET availability_map == [tid \in { track_ids[i] : i \in DOMAIN track_ids } |-> <<>>]
        Ids(map, sf) ==
            LET Body(acc, pos) == RegionStep(catalog, track_ids, acc, sf, pos)
            IN  Fold(Body, [i \in DOMAIN track_ids |-> i], [map |-> map, skip |-> 0]).map
        Storefronts == Fold(Ids, [i \in DOMAIN TARGET_STOREFRONTS |-> i], availability_map)
    IN  Storefronts

(***************************************************************************)
(* The four discovery strategies and their aggregation                     *)
(***************************************************************************)

discover_spatial_audio_tracks(catalog, now) ==
    LET discovered_tracks ==
            ScanPlaylists(catalog, SPATIAL_AUDIO_PLAYLISTS, now).out
        discovered_ids ==
            [i \in DOMAIN discovered_tracks |-> discovered_tracks[i].apple_music_id]
        regional_availability == check_region_availability(catalog, discovered_ids)
    IN  [i \in DOMAIN discovered_tracks |->
            [discovered_tracks[i] EXCEPT !.region_availability =
                [present |-> TRUE,
                 items |-> regional_availability[discovered_tracks[i].apple_music_id]]]]

discover_from_new_music_playlists(catalog, now) ==
    ScanPlaylists(catalog, NEW_MUSIC_PLAYLISTS \o CHART_PLAYLISTS, now).out

\* _get_album_tracks: the album's tracks, [] when the request fails
_get_album_tracks(album) ==
    IF album.status # "ok" THEN <<>> ELSE album.items

discover_new_album_releases(catalog, now) ==
    LET Body(acc, album) ==
            IF album.id = NULL THEN acc
            ELSE ScanTracks(_get_album_tracks(album), acc, now)
    IN  IF catalog.charts.status # "ok" THEN <<>>
        ELSE Fold(Body, catalog.charts.albums, NoTracks).out

\* two of the four default search terms
search_terms == <<"Dolby Atmos", "Spatial Audio">>

search_recent_atmos_releases(catalog, now) ==
    LET Body(acc, term) ==
            IF catalog.search[term].status # "ok" THEN acc
            ELSE ScanTracks(catalog.search[term].items, acc, now)
    IN  Fold(Body, search_terms, NoTracks).out

\* add_tracks had it let a later occurrence of an id replace the first
add_tracks_last_wins(acc, tracks) ==
    LET Body(a, track) ==
            LET track_id == track.apple_music_id
            IN  IF track_id = NULL \/ track_id = "" THEN a
                ELSE IF track_id \in a.seen_ids
                THEN [a EXCEPT !.all_tracks =
                         [i \in DOMAIN @ |->
                            IF @[i].apple_music_id = track_id THEN track ELSE @[i]]]
                ELSE [all_tracks |-> Append(a.all_tracks, track),
                      seen_ids |-> a.seen_ids \cup {track_id}]
    IN  Fold(Body, tracks, acc)

\* add_tracks: acc is [all_tracks, seen_ids]
add_tracks(acc, tracks) ==
    LET Body(a, track) ==
            LET track_id == track.apple_music_id
            IN  IF track_id # NULL /\ track_id # "" /\ track_id \notin a.seen_ids
                THEN [all_tracks |-> Append(a.all_tracks, track),
                      seen_ids |-> a.seen_ids \cup {track_id}]
                ELSE a
    IN  Fold(Body, tracks, acc)

\* the four strategies' results in the order discover_all runs them
SourceLists(catalog, now) ==
    << discover_spatial_audio_tracks(catalog, now),
       discover_from_new_music_playlists(catalog, now),
       discover_new_album_releases(catalog, now),
       search_recent_atmos_releases(catalog, now) >>

discover_all_spatial_audio_tracks(catalog, now) ==
    Fold(add_tracks, SourceLists(catalog, now),
         [all_tracks |-> <<>>, seen_ids |-> {}]).all_tracks

(***************************************************************************)
(* Storage.  A table is the sequence of its rows in insertion order; a     *)
(* Track's id is its index in tracks (rows are never deleted, ids come     *)
(* from the autoincrement).  engineers and credits likewise.               *)
(***************************************************************************)
\* json.dumps(metadata): the text of the dictionary; a float column is a
\* reduced fraction
JsonDumps(metadata) == [kind |-> "json", text |-> metadata]
NoJson == [kind |-> "None"]
NoFloat == [kind |-> "None"]

\* the insert had it not stored the external id
NewTrackNoExternalId(track_data, now) ==
    [apple_music_id |-> NULL,
     title |-> track_data.title,
     artist |-> track_data.artist,
     album |-> track_data.album,
     format |-> track_data.format,
     platform |-> track_data.platform,
     release_date |-> track_data.release_date,
     atmos_release_date |-> track_data.atmos_release_date,
     album_art |-> track_data.album_art,
     music_link |-> track_data.music_link,
     extra_metadata |-> JsonDumps(track_data.metadata),
     discovered_at |-> DT(now),
     updated_at |-> DT(now),
     hall_of_shame |-> FALSE,
     avg_immersiveness |-> NoFloat,
     review_summary |-> NULL]

\* Track(...) as sync inserts it; the column defaults of models.py fill
\* the rest
NewTrack(track_data, now) ==
    [apple_music_id |-> track_data.apple_music_id,
     title |-> track_data.title,
     artist |-> track_data.artist,
     album |-> track_data.album,
     format |-> track_data.format,
     platform |-> track_data.platform,
     release_date |-> track_data.release_date,
     atmos_release_date |-> track_data.atmos_release_date,
     album_art |-> track_data.album_art,
     music_link |-> track_data.music_link,
     extra_metadata |-> JsonDumps(track_data.metadata),
     discovered_at |-> DT(now),
     updated_at |-> DT(now),
     hall_of_shame |-> FALSE,
     avg_immersiveness |-> NoFloat,
     review_summary |-> NULL]

\* the merge had it cleared the date of the Atmos mix
UpdateTrackUndated(track, track_data, now) ==
    [track EXCEPT !.title = track_data.title,
                  !.artist = track_data.artist,
                  !.album = track_data.album,
                  !.format = track_data.format,
                  !.release_date = track_data.release_date,
                  !.atmos_release_date = NoDate,
                  !.music_link = track_data.music_link,
                  !.extra_metadata = JsonDumps(track_data.metadata),
                  !.updated_at = DT(now)]

\* the update had it written the row afresh from the discovered track
UpdateTrackRebuild(track, track_data, now) ==
    [NewTrack(track_data, now) EXCEPT !.platform = track.platform,
                                      !.album_art = track.album_art]

\* the assignments of the "Update existing track" branch
UpdateTrack(track, track_data, now) ==
    [track EXCEPT !.title = track_data.title,
                  !.artist = track_data.artist,
                  !.album = track_data.album,
                  !.format = track_data.format,
                  !.release_date = track_data.release_date,
                  !.atmos_release_date = track_data.atmos_release_date,
                  !.music_link = track_data.music_link,
                  !.extra_metadata = JsonDumps(track_data.metadata),
                  !.updated_at = DT(now)]

\* db.query(Track).filter(Track.apple_music_id == x).first(): the id of
\* the first row, 0 for None
FindByAppleId(rows, apple_music_id) ==
    LET hit == { i \in DOMAIN rows : rows[i].apple_music_id = apple_music_id }
    IN  IF hit = {} THEN 0 ELSE CHOOSE i \in hit : \A j \in hit : i <= j

\* the replacement had it added the new rows without the delete
ReplaceRegionsAppend(rows, track_id, region_availability) ==
    rows
    \o [i \in DOMAIN region_availability |->
          [track_id |-> track_id,
           storefront |-> region_availability[i].storefront,
           is_available |-> region_availability[i].is_available,
           format |-> region_availability[i].format]]

\* the replacement had it patched: only the rows of the storefronts that
\* the new list names are deleted
ReplaceRegionsPatch(rows, track_id, region_availability) ==
    SelectSeq(rows, LAMBDA r :
                ~(/\ r.track_id = track_id
                  /\ \E i \in DOMAIN region_availability :
                        region_availability[i].storefront = r.storefront))
    \o [i \in DOMAIN region_availability |->
          [track_id |-> track_id,
           storefront |-> region_availability[i].storefront,
           is_available |-> region_availability[i].is_available,
           format |-> region_availability[i].format]]

\* delete the track's availability rows, then add the new ones
ReplaceRegions(rows, track_id, region_availability) ==
    SelectSeq(rows, LAMBDA r : r.track_id # track_id)
    \o [i \in DOMAIN region_availability |->
          [track_id |-> track_id,
           storefront |-> region_availability[i].storefront,
           is_available |-> region_availability[i].is_available,
           format |-> region_availability[i].format]]

NoConstraint(rows) == FALSE

\* Track.apple_music_id is unique: the INSERT or UPDATE that leaves two rows
\* with the same non-null id raises IntegrityError
UniqueViolation(rows) ==
    \E i, j \in DOMAIN rows :
        /\ i # j
        /\ rows[i].apple_music_id # NULL
        /\ rows[i].apple_music_id = rows[j].apple_music_id

(***************************************************************************)
(* sync_spatial_audio_tracks, after discovery.  s is the session:          *)
(* [tracks, regions, committed, tracks_added, tracks_updated, errors,      *)
(* inactive].  fault names the statement of this item that raises a        *)
(* database error: "query" the lookup (a lock timeout, a statement         *)
(* timeout), "flush" the db.flush() (a constraint violation, a lost        *)
(* connection); the loop's except logs either and goes on.  A failed       *)
(* lookup leaves the session usable.  A failed flush rolls the session's   *)
(* transaction back and leaves it inactive: every later statement of the   *)
(* session raises and so does db.commit().                                 *)
(***************************************************************************)
\* the item had it counted before the lookup: an item whose lookup raises
\* is counted as updated
SyncItemCountFirst(s, track_data, fault, now) ==
    IF s.inactive \/ fault = "query"
    THEN [s EXCEPT !.errors = @ + 1, !.tracks_updated = @ + 1]
    ELSE
    LET id == FindByAppleId(s.tracks, track_data.apple_music_id)
        rows == IF id # 0
                THEN [s.tracks EXCEPT ![id] = UpdateTrack(@, track_data, now)]
                ELSE Append(s.tracks, NewTrack(track_data, now))
        track_id == IF id # 0 THEN id ELSE Len(rows)
        counted == [s EXCEPT !.tracks_added = IF id = 0 THEN @ + 1 ELSE @,
                             !.tracks_updated = IF id # 0 THEN @ + 1 ELSE @]
    IN  IF fault = "flush" \/ UniqueViolation(rows)
        THEN [counted EXCEPT !.tracks = s.committed.tracks,
                             !.regions = s.committed.regions,
                             !.errors = @ + 1,
                             !.inactive = TRUE]
        ELSE [counted EXCEPT
                !.tracks = rows,
                !.regions =
                    IF track_data.region_availability.present
                    THEN ReplaceRegions(@, track_id,
                                        track_data.region_availability.items)
                    ELSE @]

\* the item had its availability rows replaced whether or not the
\* discovered track carries region data
SyncItemAlwaysReplace(s, track_data, fault, now) ==
    IF s.inactive \/ fault = "query" THEN [s EXCEPT !.errors = @ + 1]
    ELSE
    LET id == FindByAppleId(s.tracks, track_data.apple_music_id)
        rows == IF id # 0
                THEN [s.tracks EXCEPT ![id] = UpdateTrack(@, track_data, now)]
                ELSE Append(s.tracks, NewTrack(track_data, now))
        track_id == IF id # 0 THEN id ELSE Len(rows)
        counted == [s EXCEPT !.tracks_added = IF id = 0 THEN @ + 1 ELSE @,
                             !.tracks_updated = IF id # 0 THEN @ + 1 ELSE @]
    IN  IF fault = "flush" \/ UniqueViolation(rows)
        THEN [counted EXCEPT !.tracks = s.committed.tracks,
                             !.regions = s.committed.regions,
                             !.errors = @ + 1,
                             !.inactive = TRUE]
        ELSE [counted EXCEPT
                !.tracks = rows,
                !.regions = ReplaceRegions(@, track_id,
                                           track_data.region_availability.items)]

SyncItem(s, track_data, fault, now) ==
    IF s.inactive \/ fault = "query" THEN [s EXCEPT !.errors = @ + 1]
    ELSE
    LET id == FindByAppleId(s.tracks, track_data.apple_music_id)
        rows == IF id # 0
                THEN [s.tracks EXCEPT ![id] = UpdateTrack(@, track_data, now)]
                ELSE Append(s.tracks, NewTrack(track_data, now))
        track_id == IF id # 0 THEN id ELSE Len(rows)
        counted == [s EXCEPT !.tracks_added = IF id = 0 THEN @ + 1 ELSE @,
                             !.tracks_updated = IF id # 0 THEN @ + 1 ELSE @]
    IN  IF fault = "flush" \/ UniqueViolation(rows)
        THEN [counted EXCEPT !.tracks = s.committed.tracks,
                             !.regions = s.committed.regions,
                             !.errors = @ + 1,
                             !.inactive = TRUE]
        ELSE [counted EXCEPT
                !.tracks = rows,
                !.regions =
                    IF track_data.region_availability.present
                    THEN ReplaceRegions(@, track_id,
                                        track_data.region_availability.items)
                    ELSE @]

NoFault == [kind |-> "none", at |-> 0]

\* the statements of one call that can raise: the lookup and the flush of
\* each item, and the commit
Faults(discovered_tracks) ==
    {NoFault, [kind |-> "commit", at |-> 0]}
    \cup { [kind |-> k, at |-> i] : k \in {"query", "flush"},
                                     i \in DOMAIN discovered_tracks }

\* the result: storage as the call leaves it, and either the counts
\* (raised = FALSE) or the exception
sync_spatial_audio_tracks(db, discovered_tracks, fault, now) ==
    LET Body(acc, i) ==
            SyncItem(acc, discovered_tracks[i],
                     IF fault.at = i THEN fault.kind ELSE "none", now)
        s == Fold(Body, [i \in DOMAIN discovered_tracks |-> i],
                  [tracks |-> db.tracks, regions |-> db.regions,
                   committed |-> db,
                   tracks_added |-> 0, tracks_updated |-> 0,
                   errors |-> 0, inactive |-> FALSE])
    IN  IF s.inactive \/ fault.kind = "commit"
        THEN [tracks |-> db.tracks, regions |-> db.regions, raised |-> TRUE,
              errors |-> s.errors, tracks_added |-> 0, tracks_updated |-> 0]
        ELSE [tracks |-> s.tracks, regions |-> s.regions, raised |-> FALSE,
              errors |-> s.errors,
              tracks_added |-> s.tracks_added,
              tracks_updated |-> s.tracks_updated]

(***************************************************************************)
(* scheduled_silent_upgrade_check.  store is the "us" songs endpoint as    *)
(* this run sees it; commitFails is db.commit() raising.  The changes are  *)
(* flushed by the commit only.                                             *)
(***************************************************************************)
\* a check that dates the Atmos mix from the track's release
SilentUpgradeTrackReleaseDate(acc, track, store, now) ==
    LET fetched == get_catalog_tracks(store, <<track.apple_music_id>>)
        track_data == fetched[1]
        upgraded == [track EXCEPT !.format = "Dolby Atmos",
                                  !.atmos_release_date = track.release_date,
                                  !.updated_at = DT(now)]
    IN  IF track.format = "Dolby Atmos"
        THEN [acc EXCEPT !.tracks = Append(@, track)]
        ELSE IF track.apple_music_id \in {NULL, ""} \/ fetched = <<>>
        THEN [acc EXCEPT !.tracks = Append(@, track)]
        ELSE IF Raises(track_data)
        THEN [acc EXCEPT !.tracks = Append(@, track)]
        ELSE IF check_spatial_audio_support(track_data).has_dolby_atmos
        THEN [acc EXCEPT !.tracks = Append(@, upgraded),
                         !.upgraded_count = @ + 1]
        ELSE [acc EXCEPT !.tracks = Append(@, track)]

SilentUpgradeTrack(acc, track, store, now) ==
    LET fetched == get_catalog_tracks(store, <<track.apple_music_id>>)
        track_data == fetched[1]
        upgraded == [track EXCEPT !.format = "Dolby Atmos",
                                  !.atmos_release_date = DT(now),
                                  !.updated_at = DT(now)]
    IN  IF track.format = "Dolby Atmos"
        THEN [acc EXCEPT !.tracks = Append(@, track)]
        ELSE IF track.apple_music_id \in {NULL, ""} \/ fetched = <<>>
        THEN [acc EXCEPT !.tracks = Append(@, track)]
        ELSE IF Raises(track_data)
        THEN [acc EXCEPT !.tracks = Append(@, track)]
        ELSE IF check_spatial_audio_support(track_data).has_dolby_atmos
        THEN [acc EXCEPT !.tracks = Append(@, upgraded),
                         !.upgraded_count = @ + 1]
        ELSE [acc EXCEPT !.tracks = Append(@, track)]

\* the run with a failing re-check that ends it before the commit
scheduled_silent_upgrade_check_abort(rows, store, commitFails, now) ==
    LET Body(acc, track) == SilentUpgradeTrack(acc, track, store, now)
        s == Fold(Body, rows, [tracks |-> <<>>, upgraded_count |-> 0])
        aborted == \E i \in DOMAIN rows :
                      /\ rows[i].format # "Dolby Atmos"
                      /\ rows[i].apple_music_id \notin {NULL, ""}
                      /\ get_catalog_tracks(store, <<rows[i].apple_music_id>>) # <<>>
                      /\ Raises(get_catalog_tracks(store, <<rows[i].apple_music_id>>)[1])
    IN  IF commitFails \/ aborted THEN [s EXCEPT !.tracks = rows] ELSE s

scheduled_silent_upgrade_check(rows, store, commitFails, now) ==
    LET Body(acc, track) == SilentUpgradeTrack(acc, track, store, now)
        s == Fold(Body, rows, [tracks |-> <<>>, upgraded_count |-> 0])
    IN  IF commitFails THEN [s EXCEPT !.tracks = rows] ELSE s

(***************************************************************************)
(* scheduled_credits_fetch.  An Engineer row is [name, slug], a            *)
(* TrackCredit row [track_id, engineer_id, role]; a row's id is its index. *)
(* s is the session: the tables as its queries see them (committed rows    *)
(* and flushed ones), the credits added but not flushed, and the committed *)
(* tables.                                                                 *)
(***************************************************************************)
credits_limit == 5

\* the query without its limit
tracks_needing_credits_all(rows, credit_rows) ==
    SelectSeq([i \in DOMAIN rows |-> i],
              LAMBDA i : /\ rows[i].format = "Dolby Atmos"
                         /\ ~\E c \in DOMAIN credit_rows :
                               credit_rows[c].track_id = i
                         /\ rows[i].music_link # NULL)

\* the first credits_limit rows of the outer join's filter
tracks_needing_credits(rows, credit_rows) ==
    LET all == SelectSeq([i \in DOMAIN rows |-> i],
                         LAMBDA i : /\ rows[i].format = "Dolby Atmos"
                                    /\ ~\E c \in DOMAIN credit_rows :
                                          credit_rows[c].track_id = i
                                    /\ rows[i].music_link # NULL)
    IN  SubSeq(all, 1, Min(credits_limit, Len(all)))

FindEngineer(rows, name) ==
    LET hit == { i \in DOMAIN rows : rows[i].name = name }
    IN  IF hit = {} THEN 0 ELSE CHOOSE i \in hit : \A j \in hit : i <= j

\* the body of the loop with an engineer created for every credit
AddCreditNoLookup(s, track_id, credit) ==
    LET flushed == [s EXCEPT !.engineers =
                                 Append(@, [name |-> credit.name,
                                            slug |-> credit.slug]),
                             !.credits = @ \o s.pending,
                             !.pending = <<>>]
        new_credit == [track_id |-> track_id,
                       engineer_id |-> Len(flushed.engineers),
                       role |-> credit.role]
    IN  [flushed EXCEPT !.pending = Append(@, new_credit)]

\* the body of the loop over one track's credits_data
AddCredit(s, track_id, credit) ==
    LET found == FindEngineer(s.engineers, credit.name)
        \* db.add(engineer); db.flush() also flushes the credits added so far
        flushed == IF found # 0 THEN s
                   ELSE [s EXCEPT !.engineers =
                                      Append(@, [name |-> credit.name,
                                                 slug |-> credit.slug]),
                                  !.credits = @ \o s.pending,
                                  !.pending = <<>>]
        engineer_id == IF found # 0 THEN found ELSE Len(flushed.engineers)
        new_credit == [track_id |-> track_id, engineer_id |-> engineer_id,
                       role |-> credit.role]
        existing_credit == \E c \in DOMAIN flushed.credits :
                               flushed.credits[c] = new_credit
    IN  IF existing_credit THEN flushed
        ELSE [flushed EXCEPT !.pending = Append(@, new_credit)]

\* one iteration of the loop over tracks_needing_credits, to its commit;
\* raises is a database error in this iteration
CreditsTrack(s, track_id, credits_data, raises) ==
    LET Body(acc, credit) == AddCredit(acc, track_id, credit)
        work == Fold(Body, credits_data, s)
        done == [work EXCEPT !.credits = @ \o work.pending, !.pending = <<>>]
    IN  IF s.stopped THEN s
        ELSE IF raises
        THEN [s EXCEPT !.engineers = s.committed.engineers,
                       !.credits = s.committed.credits,
                       !.pending = <<>>,
                       !.stopped = TRUE]
        ELSE [done EXCEPT !.committed = [engineers |-> done.engineers,
                                         credits |-> done.credits]]

\* the run as one transaction: a failure undoes the rows of all its tracks
scheduled_credits_fetch_atomic(db, scraped, fail) ==
    LET todo == tracks_needing_credits(db.tracks, db.credits)
        Body(acc, k) == CreditsTrack(acc, todo[k], scraped[k], fail = k)
        s == Fold(Body, [k \in DOMAIN todo |-> k],
                  [engineers |-> db.engineers, credits |-> db.credits,
                   pending |-> <<>>,
                   committed |-> [engineers |-> db.engineers, credits |-> db.credits],
                   stopped |-> FALSE])
    IN  IF s.stopped
        THEN [s EXCEPT !.committed = [engineers |-> db.engineers,
                                      credits |-> db.credits]]
        ELSE s

\* scraped[k] is what fetch_credits returns for the k-th track, fail the
\* iteration whose flush or commit raises (0 for none)
scheduled_credits_fetch(db, scraped, fail) ==
    LET todo == tracks_needing_credits(db.tracks, db.credits)
        Body(acc, k) == CreditsTrack(acc, todo[k], scraped[k], fail = k)
    IN  Fold(Body, [k \in DOMAIN todo |-> k],
             [engineers |-> db.engineers, credits |-> db.credits,
              pending |-> <<>>,
              committed |-> [engineers |-> db.engineers, credits |-> db.credits],
              stopped |-> FALSE])

(***************************************************************************)
(* utils/credits_scraper.py.  A text is a tuple of characters.  A page is  *)
(* what httpx and BeautifulSoup make of the URL:                           *)
(*   status        "ok", or how the request or raise_for_status failed     *)
(*   soup_raises   BeautifulSoup(html_content, 'html.parser') raises       *)
(*   scripts       the application/json scripts, each by what json.loads   *)
(*                 makes of its string                                     *)
(*   selected      per selector of credit_selectors, [raises, texts]: the  *)
(*                 get_text(strip=True) of the elements that it selects    *)
(*   text_content  [raises, text]: soup.get_text()                         *)
(* A function's outcome is [raised, value].                                *)
(***************************************************************************)
target_roles ==
    << <<"I", "m", "m", "e", "r", "s", "i", "v", "e", " ", "M", "i", "x", " ", "E", "n", "g", "i", "n", "e", "e", "r">>,
       <<"D", "o", "l", "b", "y", " ", "A", "t", "m", "o", "s", " ", "M", "i", "x", "e", "r">>,
       <<"S", "u", "r", "r", "o", "u", "n", "d", " ", "M", "i", "x", " ", "E", "n", "g", "i", "n", "e", "e", "r">>,
       <<"M", "i", "x", " ", "E", "n", "g", "i", "n", "e", "e", "r">>,
       <<"M", "a", "s", "t", "e", "r", "i", "n", "g", " ", "E", "n", "g", "i", "n", "e", "e", "r">>,
       <<"E", "n", "g", "i", "n", "e", "e", "r">>,
       <<"P", "r", "o", "d", "u", "c", "e", "r">> >>

IsSpace(ch) == ch \in {" ", "\t", "\n"}
IsLetter(ch) == \E i \in DOMAIN UpperCase : UpperCase[i] = ch \/ LowerCase[i] = ch
IsDigit(ch) == ch \in {"0", "1", "2", "3", "4", "5", "6", "7", "8", "9"}

\* the class [a-zA-Z0-9\s\.]
IsNameChar(ch) == IsLetter(ch) \/ IsDigit(ch) \/ IsSpace(ch) \/ ch = "."

\* the index after the white space that starts at index i
SkipSpaces(text, i) ==
    CHOOSE j \in i..(Len(text) + 1) :
        /\ \A k \in i..(j - 1) : IsSpace(text[k])
        /\ j = Len(text) + 1 \/ ~IsSpace(text[j])

\* the last index of the run of name characters that starts at index i
RunEnd(text, i) ==
    CHOOSE e \in (i - 1)..Len(text) :
        /\ \A k \in i..e : IsNameChar(text[k])
        /\ e = Len(text) \/ ~IsNameChar(text[e + 1])

\* the pattern  role \s* [:|-]? \s* ([A-Z][a-zA-Z0-9\s\.]+)  with IGNORECASE,
\* tried at index i: whether it matches, and the group's first and last index
MatchFrom(text, role, i) ==
    LET sep == SkipSpaces(text, i + Len(role))
        gap == IF sep <= Len(text) /\ text[sep] \in {":", "|", "-"}
               THEN sep + 1 ELSE sep
        first == SkipSpaces(text, gap)
    IN  IF /\ i + Len(role) - 1 <= Len(text)
           /\ \A k \in 1..Len(role) : lower(text[i + k - 1]) = lower(role[k])
           /\ first + 1 <= Len(text)
           /\ IsLetter(text[first])
           /\ IsNameChar(text[first + 1])
        THEN [ok |-> TRUE, first |-> first, final |-> RunEnd(text, first)]
        ELSE [ok |-> FALSE, first |-> 0, final |-> 0]

\* pattern.findall(text): the groups of the matches from left to right, each
\* search starting where the match before it ended
RECURSIVE FindAll(_, _, _)
FindAll(text, role, pos) ==
    LET starts == { i \in pos..Len(text) : MatchFrom(text, role, i).ok }
        i == CHOOSE x \in starts : \A y \in starts : x <= y
        m == MatchFrom(text, role, i)
    IN  IF starts = {} THEN <<>>
        ELSE <<SubSeq(text, m.first, m.final)>> \o FindAll(text, role, m.final + 1)

\* str.strip()
Strip(s) ==
    LET kept == { i \in DOMAIN s : ~IsSpace(s[i]) }
    IN  IF kept = {} THEN <<>>
        ELSE SubSeq(s, CHOOSE i \in kept : \A j \in kept : i <= j,
                       CHOOSE i \in kept : \A j \in kept : j <= i)

\* name.lower().replace(" ", "-").replace(".", "")
Slug(name) ==
    SelectSeq([i \in DOMAIN name |-> IF name[i] = " " THEN "-" ELSE lower(name[i])],
              LAMBDA ch : ch # ".")

_parse_credit_text(text) ==
    LET Names(role) ==
            LET matches == FindAll(text, role, 1)
            IN  SelectSeq([n \in DOMAIN matches |-> Strip(matches[n])],
                          LAMBDA name : 2 < Len(name) /\ Len(name) < 50)
        Body(acc, role) ==
            acc \o [n \in DOMAIN Names(role) |->
                      [role |-> role, name |-> Names(role)[n],
                       slug |-> Slug(Names(role)[n])]]
    IN  Fold(Body, target_roles, <<>>)

_extract_credits_from_text(text_content) == _parse_credit_text(text_content)

\* a placeholder in the source: no credit comes from the embedded JSON
_extract_credits_from_json(json_data) == <<>>

\* Strategy 1: a script that is no JSON is skipped, a script without a
\* string makes json.loads raise TypeError, which ends the strategy
FromScripts(page) ==
    LET Body(acc, script) ==
            IF acc.raised THEN acc
            ELSE IF script = "no_string" THEN [acc EXCEPT !.raised = TRUE]
            ELSE IF script = "credits_dict"
            THEN [acc EXCEPT !.value = @ \o _extract_credits_from_json(script)]
            ELSE acc
    IN  Fold(Body, page.scripts, [raised |-> FALSE, value |-> <<>>]).value

\* Strategy 2: a selector that raises ends the strategy; the credits of the
\* selectors before it stay in the list
FromSelectors(page, credits) ==
    LET Texts(acc, text) ==
            IF text = <<>> THEN acc ELSE acc \o _parse_credit_text(text)
        Body(acc, selection) ==
            IF acc.raised THEN acc
            ELSE IF selection.raises THEN [acc EXCEPT !.raised = TRUE]
            ELSE [acc EXCEPT !.value = Fold(Texts, selection.texts, @)]
    IN  Fold(Body, page.selected, [raised |-> FALSE, value |-> credits]).value

\* Strategy 3, when the list is still empty
FromText(page, credits) ==
    IF credits # <<>> THEN credits
    ELSE IF page.text_content.raises THEN credits
    ELSE _extract_credits_from_text(page.text_content.text)

\* the list before the duplicates are removed
Collected(page) == FromText(page, FromSelectors(page, FromScripts(page)))

\* f"{c['name'].lower()}:{c['role'].lower()}"
CreditKey(c) == LowerStr(c.name) \o <<":">> \o LowerStr(c.role)

\* the loop had it compare the names and roles as they are written
unique_credits_exact(credits) ==
    LET Body(acc, c) ==
            IF (c.name \o <<":">> \o c.role) \in acc.seen THEN acc
            ELSE [seen |-> acc.seen \cup {c.name \o <<":">> \o c.role},
                  out |-> IF 2 < Len(c.name) /\ Len(c.name) < 100 /\ Len(c.role) < 100
                          THEN Append(acc.out, c) ELSE acc.out]
    IN  Fold(Body, credits, [seen |-> {}, out |-> <<>>]).out

\* "Remove duplicates and validate"
unique_credits(credits) ==
    LET Body(acc, c) ==
            IF CreditKey(c) \in acc.seen THEN acc
            ELSE [seen |-> acc.seen \cup {CreditKey(c)},
                  out |-> IF 2 < Len(c.name) /\ Len(c.name) < 100 /\ Len(c.role) < 100
                          THEN Append(acc.out, c) ELSE acc.out]
    IN  Fold(Body, credits, [seen |-> {}, out |-> <<>>]).out

_parse_credits(page) ==
    IF page.soup_raises THEN <<>> ELSE unique_credits(Collected(page))

\* fetch_credits without its except clauses
fetch_credits_uncaught(page) ==
    IF page.status # "ok" THEN [raised |-> TRUE, value |-> <<>>]
    ELSE [raised |-> FALSE, value |-> _parse_credits(page)]

\* the request, raise_for_status and the parse, inside the try
fetch_credits(page) ==
    IF page.status # "ok" THEN [raised |-> FALSE, value |-> <<>>]
    ELSE [raised |-> FALSE, value |-> _parse_credits(page)]

(***************************************************************************)
(* import_existing_data_json.  An entry of data.json is [title, artist,    *)
(* album, format, platform, releaseDate, albumArt]; releaseDate is         *)
(* [kind |-> "date", val |-> n] when datetime.fromisoformat parses it.     *)
(* The lookup does not see the rows added by this call: nothing flushes    *)
(* them before the commit.                                                 *)
(***************************************************************************)
ImportedTrack(track_data, now) ==
    [apple_music_id |-> NULL,
     title |-> track_data.title,
     artist |-> track_data.artist,
     album |-> track_data.album,
     format |-> track_data.format,
     platform |-> track_data.platform,
     release_date |-> DT(track_data.releaseDate.val),
     atmos_release_date |-> NoDate,
     album_art |-> IF track_data.albumArt = NULL
                   THEN "notes" ELSE track_data.albumArt,
     music_link |-> NULL,
     extra_metadata |-> NoJson,
     discovered_at |-> DT(now),
     updated_at |-> DT(now),
     hall_of_shame |-> FALSE,
     avg_immersiveness |-> NoFloat,
     review_summary |-> NULL]

import_existing_data_json(rows, tracks_data, now) ==
    LET Body(acc, track_data) ==
            LET existing_track ==
                    \E i \in DOMAIN rows : /\ rows[i].title = track_data.title
                                           /\ rows[i].artist = track_data.artist
            IN  IF acc.raised THEN acc
                ELSE IF existing_track THEN acc
                ELSE IF track_data.releaseDate.kind # "date"
                THEN [acc EXCEPT !.raised = TRUE]
                ELSE [acc EXCEPT !.tracks = Append(@, ImportedTrack(track_data, now))]
        s == Fold(Body, tracks_data, [tracks |-> rows, raised |-> FALSE])
    IN  IF s.raised THEN [s EXCEPT !.tracks = rows] ELSE s

(***************************************************************************)
(* rate_track (main.py).  A CommunityRating row is [track_id,              *)
(* immersiveness_score, is_fake_atmos].                                    *)
(***************************************************************************)
Gcd(a, b) ==
    CHOOSE d \in 1..a : /\ a % d = 0 /\ b % d = 0
                        /\ \A e \in (d + 1)..a : a % e # 0 \/ b % e # 0

\* float(avg_score) as a reduced fraction
Float(num, den) ==
    [kind |-> "float", num |-> num \div Gcd(num, den), den |-> den \div Gcd(num, den)]

Sum(xs) == Fold(LAMBDA a, x : a + x, xs, 0)

\* found = FALSE is the 404
rate_track(db, track_id, rating) ==
    LET ratings == Append(db.ratings,
                          [track_id |-> track_id,
                           immersiveness_score |-> rating.score,
                           is_fake_atmos |-> rating.is_fake])
        mine == SelectSeq(ratings, LAMBDA r : r.track_id = track_id)
        total == Len(mine)
        fake_count == Len(SelectSeq(mine, LAMBDA r : r.is_fake_atmos))
        avg_value == Float(Sum([i \in DOMAIN mine |-> mine[i].immersiveness_score]), total)
    IN  IF track_id \notin DOMAIN db.tracks
        THEN [tracks |-> db.tracks, ratings |-> db.ratings, found |-> FALSE]
        ELSE [tracks |->
                [db.tracks EXCEPT
                   ![track_id].avg_immersiveness = avg_value,
                   ![track_id].hall_of_shame =
                       IF total > 5 /\ 10 * fake_count > 3 * total THEN TRUE ELSE @,
                   ![track_id].updated_at = DT(db.now)],
              ratings |-> ratings, found |-> TRUE]

(***************************************************************************)
(* The catalog's answers an invocation may get.  Two songs, "a" and "b";   *)
(* the catalog has two editions of each song's data.                       *)
(***************************************************************************)
vAtmosList == JList(<< <<"l", "o", "s", "s", "l", "e", "s", "s">>,
                       <<"d", "o", "l", "b", "y", "-", "a", "t", "m", "o", "s">> >>)
vAtmosDict == JDict(<< <<"A", "T", "M", "O", "S">> >>)
vLossless == JList(<< <<"l", "o", "s", "s", "l", "e", "s", "s">> >>)

Song(id, edition, variants) ==
    [id |-> id,
     attributes |->
        [kind |-> "dict",
         name |-> IF edition = 1 THEN "Title" ELSE "Title (Remastered)",
         artistName |-> IF edition = 1 THEN "Artist" ELSE "Artist & Guest",
         albumName |-> IF edition = 1 THEN "Album" ELSE "Album (Deluxe)",
         url |-> IF edition = 1 THEN "https://music.apple.com/us/song/1"
                 ELSE "https://music.apple.com/us/song/2",
         isrc |-> IF edition = 1 THEN NULL ELSE "USX9P2400002",
         releaseDate |-> IF edition = 1 THEN [kind |-> "date", val |-> -20]
                         ELSE [kind |-> "date", val |-> -10],
         genreNames |-> IF edition = 1 THEN << <<"R", "o", "c", "k">> >>
                        ELSE << <<"I", "n", "d", "i", "e", " ", "P", "o", "p">> >>,
         artwork |-> IF edition = 1 THEN <<>> ELSE <<"https://art/", "{w}", "x", "{h}">>,
         audioVariants |-> variants,
         audioTraits |-> JAbsent]]

Ok(items) == [status |-> "ok", items |-> items, page |-> 100]

\* the curated playlist "pl.hits"; the other curated playlist repeats
\* song a and holds a stereo song
HitsChoices ==
    { Failed,
      Ok(<<Song("a", 1, vAtmosList), Song("b", 1, vAtmosDict)>>),
      Ok(<<Song("a", 2, vAtmosDict)>>) }

\* the result of the search term "Dolby Atmos"
SearchChoices ==
    { Failed,
      Ok(<<Song("b", 2, vAtmosList), Song(NULL, 1, vAtmosList)>>) }

\* the songs endpoint of the four storefronts
StoreChoices ==
    { [sf \in {"us", "gb", "jp", "de"} |->
          Ok(<<Song("a", 1, vAtmosList), Song("b", 1, vAtmosList)>>)],
      [sf \in {"us", "gb", "jp", "de"} |->
          CASE sf = "us" -> Ok(<<Song("a", 2, vAtmosList), Song("b", 1, vLossless)>>)
            [] sf = "gb" -> Failed
            [] sf = "jp" -> Ok(<<Song("b", 1, vAtmosList)>>)
            [] sf = "de" -> Ok(<<[id |-> "a", attributes |-> NullAttributes],
                                 Song("b", 2, vAtmosDict)>>)] }

Catalogs ==
    { [playlists |->
          [pid \in {"pl.hits", "pl.pop", "pl.todays", "pl.top100"} |->
              CASE pid = "pl.hits" -> hits
                [] pid = "pl.pop" ->
                      Ok(<<Song("a", 2, vAtmosList), Song("b", 1, vLossless)>>)
                [] pid = "pl.todays" -> Ok(<<>>)
                [] pid = "pl.top100" -> Failed],
       charts |-> [status |-> "ok",
                   albums |-> << [id |-> NULL, status |-> "ok", items |-> <<>>],
                                 [id |-> "al.1", status |-> "error", items |-> <<>>] >>],
       search |-> [term \in {"Dolby Atmos", "Spatial Audio"} |->
                      IF term = "Dolby Atmos" THEN srch ELSE Failed],
       songs |-> stores]
      : hits \in HitsChoices, srch \in SearchChoices, stores \in StoreChoices }

\* data.json as the setup script may find it: an entry twice, an entry
\* whose date does not parse, an entry with the title and artist of a song
\* of the catalog
Entry(title, format, releaseDate) ==
    [title |-> title, artist |-> "Artist", album |-> "Album",
     format |-> format, platform |-> "Apple Music",
     releaseDate |-> releaseDate, albumArt |-> NULL]

DataFiles ==
    { << Entry("Title", "Dolby Atmos", [kind |-> "date", val |-> -20]),
         Entry("Title", "Dolby Atmos", [kind |-> "date", val |-> -20]) >>,
      << Entry("Other", "Spatial Audio", [kind |-> "date", val |-> -30]),
         Entry("Third", "Dolby Atmos", [kind |-> "bad", val |-> 0]) >>,
      << Entry("Other", "Spatial Audio", [kind |-> "date", val |-> -30]) >> }

\* the ratings a visitor may submit
Ratings == { [score |-> 9, is_fake |-> FALSE], [score |-> 2, is_fake |-> TRUE] }

\* what fetch_credits may return for a page
Credit(name, role) == [name |-> name, role |-> role, slug |-> name]

CreditLists ==
    { <<>>,
      << Credit("Ann Lee", "Mixing Engineer") >>,
      << Credit("Ann Lee", "Mixing Engineer"),
         Credit("Bob Ray", "Mastering Engineer"),
         Credit("Ann Lee", "Mastering Engineer") >> }

(***************************************************************************)
(* Spec: the operations on storage, one invocation at a time.              *)
(* last describes the invocation that led to the state.                    *)
(***************************************************************************)
MaxTime == 3

\* the five tables, the wall clock, and the last invocation
VARIABLES db_tracks, db_regions, db_engineers, db_credits, db_ratings, clock, last

\* the module's global scheduler, and the invocations in progress: the three
\* jobs' and the refresh request's
VARIABLES scheduler, run

vars == <<db_tracks, db_regions, db_engineers, db_credits, db_ratings, clock, last,
          scheduler, run>>

Jobs == {"spatial_audio_scan", "silent_upgrade_check", "credits_fetch"}
Invocations == Jobs \cup {"manual_refresh"}

NoDirty == [kind |-> "none"]

\* an invocation that is not running
Idle ==
    [pc |-> "idle", instances |-> 0, skipped |-> FALSE, outcome |-> "none",
     failed |-> FALSE, started |-> 0,
     batch |-> <<>>, at |-> 1, dirty |-> NoDirty,
     upd |-> <<>>, ins |-> <<>>, regs |-> <<>>,
     tracks_added |-> 0, tracks_updated |-> 0, inactive |-> FALSE,
     snap |-> <<>>, todo |-> <<>>]

\* what discovery returns, per catalog answer and time of the call
Discovered ==
    { [now |-> t,
       sources |-> SourceLists(catalog, t),
       batch |-> discover_all_spatial_audio_tracks(catalog, t)]
      : catalog \in Catalogs, t \in 1..MaxTime }

\* the "us" songs endpoint as a silent-upgrade run may see it
UsStores == { catalog.songs["us"] : catalog \in Catalogs } \cup {Failed}

NoCall == [op |-> "none", raised |-> FALSE, errors |-> 0, tracks_added |-> 0,
           tracks_updated |-> 0, batch |-> <<>>, sources |-> <<>>,
           repeat |-> FALSE]

\* the tables the jobs' sessions write
Database ==
    [tracks |-> db_tracks, regions |-> db_regions,
     engineers |-> db_engineers, credits |-> db_credits]

\* the tables once a sync has ended: its session adds and changes Track rows
\* and replaces RegionAvailability rows
SyncTables(db, r) == [db EXCEPT !.tracks = r.tracks, !.regions = r.regions]

\* the tables once a silent-upgrade run has ended: its session changes Track
\* rows
UpgradeTables(db, r) == [db EXCEPT !.tracks = r.tracks]

\* the tables with a credits run's commits and the Track rows it loaded
\* marked as updated
CreditsTablesTouch(db, r) ==
    [db EXCEPT !.tracks = [i \in DOMAIN @ |-> [@[i] EXCEPT !.updated_at = DT(0)]],
               !.engineers = r.committed.engineers,
               !.credits = r.committed.credits]

\* the tables once a credits run has ended: its session adds Engineer and
\* TrackCredit rows, and of the Track rows it loaded it reads id, title and
\* music_link
CreditsTables(db, r) ==
    [db EXCEPT !.engineers = r.committed.engineers,
               !.credits = r.committed.credits]

Init ==
    /\ db_tracks = <<>>
    /\ db_regions = <<>>
    /\ db_engineers = <<>>
    /\ db_credits = <<>>
    /\ db_ratings = <<>>
    /\ clock = 1
    /\ last = NoCall
    /\ scheduler = "None"
    /\ run = [who \in Invocations |-> Idle]

\* a scheduled scan or a manual refresh, run to its end
Sync ==
    /\ clock <= MaxTime
    /\ \E d \in { x \in Discovered : x.now = clock } :
       \E fault \in Faults(d.batch) :
       \E r \in {sync_spatial_audio_tracks([tracks |-> db_tracks, regions |-> db_regions],
                                           d.batch, fault, clock)} :
       \E w \in {SyncTables(Database, r)} :
         /\ db_tracks' = w.tracks
         /\ db_regions' = w.regions
         /\ db_engineers' = w.engineers
         /\ db_credits' = w.credits
         /\ last' = [op |-> "sync", raised |-> r.raised, errors |-> r.errors,
                     tracks_added |-> r.tracks_added,
                     tracks_updated |-> r.tracks_updated,
                     batch |-> d.batch, sources |-> d.sources,
                     repeat |-> /\ last.op = "sync"
                                /\ ~last.raised
                                /\ last.errors = 0
                                /\ last.batch = d.batch]
    /\ clock' = clock + 1
    /\ UNCHANGED <<db_ratings, scheduler, run>>

\* a run of the silent-upgrade job
SilentUpgrade ==
    /\ clock <= MaxTime
    /\ \E store \in UsStores, commitFails \in BOOLEAN :
       \E r \in {scheduled_silent_upgrade_check(db_tracks, store, commitFails, clock)} :
       \E w \in {UpgradeTables(Database, r)} :
         /\ db_tracks' = w.tracks
         /\ db_regions' = w.regions
         /\ db_engineers' = w.engineers
         /\ db_credits' = w.credits
         /\ last' = [NoCall EXCEPT !.op = "silent_upgrade",
                                   !.tracks_updated = r.upgraded_count]
    /\ clock' = clock + 1
    /\ UNCHANGED <<db_ratings, scheduler, run>>

\* a run of the credits job
CreditsFetch ==
    /\ clock <= MaxTime
    /\ \E n \in {Len(tracks_needing_credits(db_tracks, db_credits))} :
       \E scraped \in [1..n -> CreditLists], fail \in 0..n :
       \E r \in {scheduled_credits_fetch([tracks |-> db_tracks,
                                          engineers |-> db_engineers,
                                          credits |-> db_credits],
                                         scraped, fail)} :
       \E w \in {CreditsTables(Database, r)} :
         /\ db_tracks' = w.tracks
         /\ db_regions' = w.regions
         /\ db_engineers' = w.engineers
         /\ db_credits' = w.credits
         /\ last' = [NoCall EXCEPT !.op = "credits", !.errors = IF fail = 0 THEN 0 ELSE 1]
    /\ clock' = clock + 1
    /\ UNCHANGED <<db_ratings, scheduler, run>>

\* the setup script's import of data.json
Import ==
    /\ clock <= MaxTime
    /\ \E tracks_data \in DataFiles :
       \E r \in {import_existing_data_json(db_tracks, tracks_data, clock)} :
         /\ db_tracks' = r.tracks
         /\ last' = [NoCall EXCEPT !.op = "import", !.raised = r.raised]
    /\ clock' = clock + 1
    /\ UNCHANGED <<db_regions, db_engineers, db_credits, db_ratings, scheduler, run>>

\* POST /api/tracks/{track_id}/rate
RateTrack ==
    /\ clock <= MaxTime
    /\ \E track_id \in 1..(Len(db_tracks) + 1), rating \in Ratings :
       \E r \in {rate_track([tracks |-> db_tracks, ratings |-> db_ratings,
                             now |-> clock], track_id, rating)} :
         /\ db_tracks' = r.tracks
         /\ db_ratings' = r.ratings
         /\ last' = [NoCall EXCEPT !.op = "rate", !.raised = ~r.found]
    /\ clock' = clock + 1
    /\ UNCHANGED <<db_regions, db_engineers, db_credits, scheduler, run>>

Next ==
    \/ Sync
    \/ SilentUpgrade
    \/ CreditsFetch
    \/ Import
    \/ RateTrack

Spec == Init /\ [][Next]_vars

(***************************************************************************)
(* SchedSpec: the scheduler's threads and the request handler.  The        *)
(* scheduler runs each job in a thread of its pool; a refresh request runs *)
(* on the server's event loop.  Each invocation has its own session.  A    *)
(* session's flushed changes are in upd (the committed rows it has         *)
(* updated), ins (the rows it has inserted) and regs (the availability     *)
(* lists it has replaced); dirty is the change it has made to its objects  *)
(* and not flushed.  The database makes a statement that writes a row wait *)
(* while another open transaction holds a write of that row or of the same *)
(* unique key.                                                             *)
(***************************************************************************)
SyncCallers == {"spatial_audio_scan", "manual_refresh"}

\* the number of job runs and refresh requests that start
MaxRuns == 3

\* the interleavings are explored over the states of the catalog in which
\* the search fails and every storefront answers
SchedCatalogs ==
    { catalog \in Catalogs :
         catalog.search["Dolby Atmos"] = Failed /\ catalog.songs["gb"] # Failed }

SchedDiscovered ==
    { [now |-> t, batch |-> discover_all_spatial_audio_tracks(catalog, t)]
      : catalog \in SchedCatalogs, t \in 1..MaxTime }

\* add_job is called without max_instances: the scheduler runs one instance
\* of a job at a time and skips a run that comes due meanwhile
max_instances == 1

AlwaysSubmit(instances) == TRUE

\* the executor's test before it submits a run that has come due
MaySubmit(instances) == instances < max_instances

\* how a job function ends when its body has raised: each has an
\* `except Exception` that logs
JobReturnPropagates(job, raised) == IF raised THEN "raised" ELSE "returned"

JobReturn(job, raised) ==
    CASE job = "spatial_audio_scan" -> "returned"
      [] job = "silent_upgrade_check" -> "returned"
      [] job = "credits_fetch" -> "returned"

\* refresh_data turns an exception of the sync into a 500
CallerReturn(who, raised) ==
    IF who = "manual_refresh"
    THEN IF raised THEN "http_500" ELSE "returned"
    ELSE JobReturn(who, raised)

Finish(s, who, raised) ==
    [Idle EXCEPT !.skipped = s.skipped, !.started = s.started,
                 !.failed = s.failed \/ raised,
                 !.outcome = CallerReturn(who, raised)]

\* the Track table as the session's queries see it
View(rows, s) ==
    [i \in DOMAIN rows |-> IF i \in DOMAIN s.upd THEN s.upd[i] ELSE rows[i]] \o s.ins

NextItem(s) ==
    [s EXCEPT !.at = @ + 1, !.dirty = NoDirty,
              !.pc = IF s.at + 1 > Len(s.batch) THEN "commit" ELSE "item"]

\* the loop's except: log and continue
ItemRaised(s) == NextItem([s EXCEPT !.failed = TRUE])

\* the lookup and the branch it chooses, up to the flush
Touched(rows, s) ==
    LET track_data == s.batch[s.at]
        view == View(rows, s)
        id == FindByAppleId(view, track_data.apple_music_id)
    IN  IF id = 0
        THEN [s EXCEPT !.dirty = [kind |-> "insert", id |-> 0,
                                  row |-> NewTrack(track_data, s.started)],
                       !.tracks_added = @ + 1, !.pc = "flush"]
        ELSE [s EXCEPT !.dirty = [kind |-> IF id <= Len(rows) THEN "update"
                                           ELSE "update_own",
                                  id |-> IF id <= Len(rows) THEN id
                                         ELSE id - Len(rows),
                                  row |-> UpdateTrack(view[id], track_data, s.started)],
                       !.tracks_updated = @ + 1, !.pc = "flush"]

\* a flush that raises rolls the transaction back and leaves the session
\* inactive
FlushFailed(s) ==
    ItemRaised([s EXCEPT !.upd = <<>>, !.ins = <<>>, !.regs = <<>>,
                         !.inactive = TRUE])

\* db.flush() and the replacement of the availability rows
Flushed(rows, s) ==
    LET d == s.dirty
        track_data == s.batch[s.at]
        written ==
            CASE d.kind = "update" -> [s EXCEPT !.upd = (d.id :> d.row) @@ @]
              [] d.kind = "update_own" -> [s EXCEPT !.ins[d.id] = d.row]
              [] d.kind = "insert" -> [s EXCEPT !.ins = Append(@, d.row)]
        ref == CASE d.kind = "update" -> [own |-> FALSE, idx |-> d.id]
                 [] d.kind = "update_own" -> [own |-> TRUE, idx |-> d.id]
                 [] d.kind = "insert" -> [own |-> TRUE, idx |-> Len(written.ins)]
    IN  IF UniqueViolation(View(rows, written)) THEN FlushFailed(s)
        ELSE IF track_data.region_availability.present
        THEN NextItem([written EXCEPT !.regs =
                          Append(@, [ref |-> ref,
                                     items |-> track_data.region_availability.items])])
        ELSE NextItem(written)

\* the tables after the session's commit
Committed(db, s) ==
    LET Body(acc, reg) ==
            ReplaceRegions(acc, IF reg.ref.own THEN Len(db.tracks) + reg.ref.idx
                                ELSE reg.ref.idx, reg.items)
    IN  [tracks |-> View(db.tracks, s), regions |-> Fold(Body, s.regs, db.regions)]

\* the rows of the Track table that the session's open transaction has
\* written and not committed
Held(s) == DOMAIN s.upd

\* the rows that the open transaction writes: those it has written and the
\* one it has changed and is flushing
WriteSet(s) == Held(s) \cup (IF s.dirty.kind = "update" THEN {s.dirty.id} ELSE {})

\* the statement must wait: another open transaction holds a write of the
\* row, or an insert of the external id
LockConflict(who) ==
    LET d == run[who].dirty
    IN  \E other \in Invocations \ {who} :
            \/ d.kind = "update" /\ d.id \in Held(run[other])
            \/ /\ d.kind = "insert"
               /\ \E k \in DOMAIN run[other].ins :
                     run[other].ins[k].apple_music_id = d.row.apple_music_id

db_vars == <<db_tracks, db_regions, db_engineers, db_credits, db_ratings>>

\* startup_event calls start_scheduler
StartScheduler ==
    /\ scheduler' = IF scheduler # "None" THEN scheduler ELSE "running"
    /\ UNCHANGED <<db_vars, clock, last, run>>

\* the first state of a run of job or of a refresh
Begin(s, who, batch, now) ==
    [s EXCEPT !.pc = IF who \in SyncCallers
                     THEN IF batch = <<>> THEN "commit" ELSE "item"
                     ELSE "query",
              !.instances = @ + 1, !.started = now, !.failed = FALSE,
              !.outcome = "none", !.batch = batch]

\* a job's trigger comes due: the scan's discovery is part of its start
Fire(job) ==
    /\ scheduler = "running"
    /\ IF ~MaySubmit(run[job].instances)
       THEN /\ run' = [run EXCEPT ![job].skipped = TRUE]
            /\ UNCHANGED clock
       ELSE /\ clock <= MaxRuns
            /\ clock' = clock + 1
            /\ \E d \in { x \in SchedDiscovered : x.now = clock } :
                  run' = [run EXCEPT ![job] =
                             Begin(@, job, IF job \in SyncCallers THEN d.batch ELSE <<>>,
                                   clock)]
    /\ UNCHANGED <<db_vars, last, scheduler>>

\* POST /api/refresh: one request at a time runs on the event loop
Request ==
    /\ run["manual_refresh"].pc = "idle"
    /\ clock <= MaxRuns
    /\ clock' = clock + 1
    /\ \E d \in { x \in SchedDiscovered : x.now = clock } :
          run' = [run EXCEPT !["manual_refresh"] =
                     Begin(@, "manual_refresh", d.batch, clock)]
    /\ UNCHANGED <<db_vars, last, scheduler>>

\* the lookup of the next item and the change to the row
Touch(who) ==
    /\ run[who].pc = "item"
    /\ \E queryRaises \in BOOLEAN :
          run' = [run EXCEPT ![who] =
                     IF @.inactive \/ queryRaises THEN ItemRaised(@)
                     ELSE Touched(db_tracks, @)]
    /\ UNCHANGED <<db_vars, clock, last, scheduler>>

Flush(who) ==
    /\ run[who].pc = "flush"
    /\ \/ run' = [run EXCEPT ![who] = FlushFailed(@)]
       \/ /\ ~LockConflict(who)
          /\ run' = [run EXCEPT ![who] = Flushed(db_tracks, @)]
    /\ UNCHANGED <<db_vars, clock, last, scheduler>>

Commit(who) ==
    /\ run[who].pc = "commit"
    /\ \E commitRaises \in BOOLEAN :
          IF run[who].inactive \/ commitRaises
          THEN /\ run' = [run EXCEPT ![who] = Finish(@, who, TRUE)]
               /\ UNCHANGED <<db_tracks, db_regions>>
          ELSE \E r \in {Committed([tracks |-> db_tracks, regions |-> db_regions],
                                   run[who])} :
                 /\ db_tracks' = r.tracks
                 /\ db_regions' = r.regions
                 /\ run' = [run EXCEPT ![who] = Finish(@, who, FALSE)]
    /\ UNCHANGED <<db_engineers, db_credits, db_ratings, clock, last, scheduler>>

\* the silent-upgrade job reads the tracks to check
SilentQuery ==
    /\ run["silent_upgrade_check"].pc = "query"
    /\ \E queryRaises \in BOOLEAN :
          run' = [run EXCEPT !["silent_upgrade_check"] =
                     IF queryRaises THEN Finish(@, "silent_upgrade_check", TRUE)
                     ELSE [@ EXCEPT !.pc = "commit", !.snap = db_tracks]]
    /\ UNCHANGED <<db_vars, clock, last, scheduler>>

\* its loop and its commit, which writes the three columns of the rows it
\* upgraded
SilentCommit ==
    /\ run["silent_upgrade_check"].pc = "commit"
    /\ \E store \in UsStores, commitFails \in BOOLEAN :
       \E s \in {run["silent_upgrade_check"]} :
       \E r \in {scheduled_silent_upgrade_check(s.snap, store, commitFails, s.started)} :
         /\ \A i \in DOMAIN s.snap :
               r.tracks[i] # s.snap[i] =>
                   \A other \in SyncCallers : i \notin DOMAIN run[other].upd
         /\ db_tracks' =
               [i \in DOMAIN db_tracks |->
                  IF i \in DOMAIN s.snap /\ r.tracks[i] # s.snap[i]
                  THEN [db_tracks[i] EXCEPT
                          !.format = r.tracks[i].format,
                          !.atmos_release_date = r.tracks[i].atmos_release_date,
                          !.updated_at = r.tracks[i].updated_at]
                  ELSE db_tracks[i]]
         /\ run' = [run EXCEPT !["silent_upgrade_check"] =
                       Finish(@, "silent_upgrade_check", commitFails)]
    /\ UNCHANGED <<db_regions, db_engineers, db_credits, db_ratings, clock, last,
                   scheduler>>

\* the credits job selects its tracks
CreditsQuery ==
    /\ run["credits_fetch"].pc = "query"
    /\ \E queryRaises \in BOOLEAN :
       \E todo \in {tracks_needing_credits(db_tracks, db_credits)} :
          run' = [run EXCEPT !["credits_fetch"] =
                     IF queryRaises THEN Finish(@, "credits_fetch", TRUE)
                     ELSE IF todo = <<>> THEN Finish(@, "credits_fetch", FALSE)
                     ELSE [@ EXCEPT !.pc = "track", !.todo = todo]]
    /\ UNCHANGED <<db_vars, clock, last, scheduler>>

\* one track of the credits job: the scrape, the rows and the commit
CreditsStep ==
    /\ run["credits_fetch"].pc = "track"
    /\ \E credits_data \in CreditLists, raises \in BOOLEAN :
       \E s \in {run["credits_fetch"]} :
       \E r \in {CreditsTrack([engineers |-> db_engineers, credits |-> db_credits,
                               pending |-> <<>>,
                               committed |-> [engineers |-> db_engineers,
                                              credits |-> db_credits],
                               stopped |-> FALSE],
                              s.todo[s.at], credits_data, raises)} :
         /\ db_engineers' = r.committed.engineers
         /\ db_credits' = r.committed.credits
         /\ run' = [run EXCEPT !["credits_fetch"] =
                       IF raises THEN Finish(@, "credits_fetch", TRUE)
                       ELSE IF s.at = Len(s.todo) THEN Finish(@, "credits_fetch", FALSE)
                       ELSE [@ EXCEPT !.at = @ + 1]]
    /\ UNCHANGED <<db_tracks, db_regions, db_ratings, clock, last, scheduler>>

SchedNext ==
    \/ StartScheduler
    \/ \E job \in Jobs : Fire(job)
    \/ Request
    \/ \E who \in SyncCallers : Touch(who)
    \/ \E who \in SyncCallers : Flush(who)
    \/ \E who \in SyncCallers : Commit(who)
    \/ SilentQuery
    \/ SilentCommit
    \/ CreditsQuery
    \/ CreditsStep

SchedSpec == Init /\ [][SchedNext]_vars

(***************************************************************************)
(* ClientSpec: the catalog client's functions, each applied to inputs      *)
(* drawn from the sets below; last holds the call and its result.          *)
(***************************************************************************)
\* a playlist of n tracks, a track being its position, on a server that
\* answers with at most page tracks
PlaylistOf(n, page) ==
    [status |-> "ok", items |-> [i \in 1..n |-> i], page |-> page]

PlaylistSizes == {0, 1, 100, 101, 150, 250}
PageSizes == {50, 100}
Limits == {1, 20, 100, 120, 150, 300}

Playlists ==
    { PlaylistOf(n, page) : n \in PlaylistSizes, page \in PageSizes } \cup {Failed}

\* the audioVariants and audioTraits values of a song resource
VariantChoices ==
    { JAbsent, vAtmosList, vAtmosDict, vLossless, JList(<<>>),
      JList(<< <<"l", "o", "s", "s", "y">>, <<"D", "o", "l", "b", "y", "-", "A", "u", "d", "i", "o">> >>),
      JDict(<< <<"l", "o", "s", "s", "l", "e", "s", "s">> >>),
      JStr(<<"a", "t", "m", "o", "s">>) }

TraitChoices ==
    { JAbsent,
      JList(<< <<"s", "p", "a", "t", "i", "a", "l">> >>),
      JList(<< <<"l", "o", "s", "s", "l", "e", "s", "s">>, <<"A", "t", "m", "o", "s">> >>),
      JList(<< <<"l", "o", "s", "s", "l", "e", "s", "s">> >>),
      JStr(<<"S", "p", "a", "t", "i", "a", "l">>),
      JStr(<<"h", "i", "-", "r", "e", "s">>) }

\* raw tracks: a resource without attributes, one whose attributes are
\* null, and song resources with every pair of the values above
RawTracks ==
    { [id |-> "a", attributes |-> NoAttributes],
      [id |-> "a", attributes |-> NullAttributes] } \cup
    { [Song("a", 1, v) EXCEPT !.attributes.audioTraits = t]
      : v \in VariantChoices, t \in TraitChoices }

\* a Track row that the table holds with a format other than Dolby Atmos:
\* the rows that the silent-upgrade job's query selects.  The database
\* outlives a run of the program; such a row was stored before.
StoredRow(song, format) ==
    [NewTrack(_extract_track_info(song, check_spatial_audio_support(song), 0), 0)
        EXCEPT !.format = format,
               !.atmos_release_date = IF format = "Dolby Atmos" THEN @ ELSE NoDate]

StoredTables ==
    { <<>>,
      << StoredRow(Song("a", 1, vAtmosList), "Stereo") >>,
      << StoredRow(Song("a", 1, vAtmosList), "Dolby Atmos"),
         StoredRow(Song("b", 1, vAtmosList), "Spatial Audio") >>,
      << StoredRow(Song(NULL, 1, vAtmosList), "Stereo"),
         StoredRow(Song("b", 2, vAtmosList), "Stereo") >> }

ClientInit ==
    /\ db_tracks \in StoredTables
    /\ db_regions = <<>>
    /\ db_engineers = <<>>
    /\ db_credits = <<>>
    /\ db_ratings = <<>>
    /\ clock = 1
    /\ last = NoCall
    /\ scheduler = "None"
    /\ run = [who \in Invocations |-> Idle]

\* scheduled_silent_upgrade_check() on the stored table
CheckUpgrades ==
    /\ \E store \in UsStores, commitFails \in BOOLEAN, now \in 1..MaxTime :
          /\ db_tracks' = scheduled_silent_upgrade_check(db_tracks, store,
                                                         commitFails, now).tracks
          /\ last' = [op |-> "scheduled_silent_upgrade_check", store |-> store,
                      commitFails |-> commitFails, now |-> now]
    /\ UNCHANGED <<db_regions, db_engineers, db_credits, db_ratings, clock,
                   scheduler, run>>

\* the calls check_spatial_audio_support(track_data); a call that raises
\* has no result
ClassifyCallSet ==
    { [op |-> "check_spatial_audio_support",
       track_data |-> track_data,
       raised |-> Raises(track_data),
       result |-> IF Raises(track_data) THEN EmptyResult
                  ELSE check_spatial_audio_support(track_data)]
      : track_data \in RawTracks }

Classify ==
    /\ last' \in ClassifyCallSet
    /\ UNCHANGED <<db_vars, clock, scheduler, run>>

\* what the server does with a request
Replies ==
    { Ok(<<Song("a", 1, vAtmosList), Song("b", 1, vLossless)>>),
      [Failed EXCEPT !.status = "timeout"],
      [Failed EXCEPT !.status = "http_error"],
      [Failed EXCEPT !.status = "connection_error"],
      [Failed EXCEPT !.status = "invalid_json"] }

Tokens == {NULL, "token"}

IdLists == { <<>>, <<"a">>, <<"b", "a">>, <<"a", NULL>> }

\* the calls of the three fetch functions: get_catalog_tracks(storefront,
\* ids), get_playlist_tracks(playlist_id) and _get_album_tracks(album_id)
FetchCallSet ==
    { [op |-> "fetch", fn |-> fn, developer_token |-> developer_token,
       reply |-> reply, ids |-> ids,
       raised |-> \/ fn = "get_catalog_tracks" /\ ids # <<>> /\ JoinRaises(ids)
                  \/ /\ ~(fn = "get_catalog_tracks" /\ ids = <<>>)
                     /\ Propagates(_make_request(developer_token, reply)),
       result |->
          CASE fn = "get_catalog_tracks" ->
                  get_catalog_tracks(_make_request(developer_token, reply), ids)
            [] fn = "get_playlist_tracks" ->
                  get_playlist_tracks(_make_request(developer_token, reply), 100, 0)
            [] fn = "_get_album_tracks" ->
                  _get_album_tracks(_make_request(developer_token, reply))]
      : fn \in {"get_catalog_tracks", "get_playlist_tracks", "_get_album_tracks"},
        developer_token \in Tokens, reply \in Replies, ids \in IdLists }

\* texts of a page: a producer, the same producer in capitals, an engineer
\* under two roles and a name that is too short, no role, a role without a
\* name that starts with a letter
tProducer ==
    <<"P", "r", "o", "d", "u", "c", "e", "r", ":", " ", "A", "n", "n", " ", "L", "e", "e">>
tProducerCaps ==
    <<"P", "R", "O", "D", "U", "C", "E", "R", " ", "-", " ", "A", "N", "N", " ", "L", "E", "E">>
tEngineers ==
    <<"M", "i", "x", " ", "E", "n", "g", "i", "n", "e", "e", "r", " ", "B", "o", "b", " ", "R", "a", "y", ",", " ", "M", "a", "s", "t", "e", "r", "i", "n", "g", " ", "E", "n", "g", "i", "n", "e", "e", "r", ":", " ", "A", "l">>
tNoRole ==
    <<"L", "y", "r", "i", "c", "s", " ", "a", "n", "d", " ", "m", "e", "l", "o", "d", "y">>
tNoName ==
    <<"P", "r", "o", "d", "u", "c", "e", "r", ":", " ", "4", " ", "T", "e", "t">>

NoSelection == [raises |-> FALSE, texts |-> <<>>]
Selection(texts) == [raises |-> FALSE, texts |-> texts]
SelectorRaises == [raises |-> TRUE, texts |-> <<>>]

\* a page with nothing in it; the five entries of selected are those of
\* credit_selectors
BlankPage ==
    [status |-> "ok", soup_raises |-> FALSE, scripts |-> <<>>,
     selected |-> <<NoSelection, NoSelection, NoSelection, NoSelection, NoSelection>>,
     text_content |-> [raises |-> FALSE, text |-> tNoRole]]

\* pages as the scraper may find them: without credits, with an element
\* that two selectors select, with one credit in two spellings, with credits
\* in the text only, with a selector that raises after or before any credit,
\* with a text that cannot be read, malformed, and with scripts
OkPages ==
    { BlankPage,
      [BlankPage EXCEPT !.selected[1] = Selection(<<tProducer>>),
                        !.selected[4] = Selection(<<tProducer>>),
                        !.text_content.text = tProducer],
      [BlankPage EXCEPT !.selected[1] = Selection(<<tProducer, <<>>, tProducerCaps>>),
                        !.selected[3] = Selection(<<tEngineers>>)],
      [BlankPage EXCEPT !.text_content.text = tEngineers],
      [BlankPage EXCEPT !.selected[1] = Selection(<<tEngineers>>),
                        !.selected[2] = SelectorRaises,
                        !.selected[3] = Selection(<<tProducer>>)],
      [BlankPage EXCEPT !.selected[1] = SelectorRaises,
                        !.selected[2] = Selection(<<tProducer>>),
                        !.text_content.text = tProducerCaps],
      [BlankPage EXCEPT !.text_content = [raises |-> TRUE, text |-> <<>>]],
      [BlankPage EXCEPT !.soup_raises = TRUE, !.text_content.text = tProducer],
      [BlankPage EXCEPT !.text_content.text = tNoName],
      [BlankPage EXCEPT !.scripts = <<"invalid", "credits_dict", "no_string", "list">>,
                        !.text_content.text = tProducer] }

Pages ==
    OkPages \cup
    { [page EXCEPT !.status = status]
      : page \in { p \in OkPages : p.text_content.text = tProducer },
        status \in {"http_status_error", "timeout", "connect_error"} }

\* the calls fetch_credits(track_url), by the page behind the URL
ScrapeCallSet ==
    { [op |-> "fetch_credits", page |-> page, result |-> fetch_credits(page)]
      : page \in Pages }

Scrape ==
    /\ last' \in ScrapeCallSet
    /\ UNCHANGED <<db_vars, clock, scheduler, run>>

\* a resource that makes its classification raise
Broken(id) == [id |-> id, attributes |-> NullAttributes]

\* catalogs with failures: a playlist whose request fails, one with a
\* broken resource between two songs, an empty one, an album whose request
\* fails, one with a broken resource, a search term that fails
FaultyHits ==
    { Failed,
      Ok(<<Song("a", 1, vAtmosList), Broken("x"), Song("b", 1, vAtmosList)>>),
      Ok(<<Song("a", 1, vAtmosList), Song("b", 1, vAtmosList)>>) }

FaultyCatalogs ==
    { [playlists |->
          [pid \in {"pl.hits", "pl.pop", "pl.todays", "pl.top100"} |->
              CASE pid = "pl.hits" -> hits
                [] pid = "pl.pop" -> pop
                [] pid = "pl.todays" -> Ok(<<Song("d", 1, vAtmosList), Broken("y")>>)
                [] pid = "pl.top100" -> Ok(<<Song("e", 2, vAtmosDict)>>)],
       charts |-> [status |-> "ok",
                   albums |-> << [id |-> NULL, status |-> "ok", items |-> <<>>],
                                 [id |-> "al.1", status |-> "error", items |-> <<>>],
                                 [id |-> "al.2", status |-> "ok",
                                  items |-> <<Song("f", 1, vAtmosList), Broken("z"),
                                              Song("f2", 1, vAtmosList)>>],
                                 [id |-> "al.3", status |-> "ok",
                                  items |-> <<Song("g", 1, vAtmosList)>>] >>],
       search |-> [term \in {"Dolby Atmos", "Spatial Audio"} |->
                      IF term = "Dolby Atmos" THEN srch
                      ELSE Ok(<<Song("h", 2, vAtmosList)>>)],
       songs |-> [sf \in {"us", "gb", "jp", "de"} |->
                     IF sf = "gb" THEN Failed
                     ELSE Ok(<<Song("a", 1, vAtmosList), Song("c", 1, vAtmosList)>>)]]
      : hits \in FaultyHits,
        pop \in { Ok(<<>>), Ok(<<Song("c", 1, vAtmosList), Song("a", 2, vAtmosList)>>) },
        srch \in { Failed, Ok(<<Broken("w")>>) } }

\* the calls discover_all_spatial_audio_tracks()
DiscoverCallSet ==
    { [op |-> "discover_all_spatial_audio_tracks", catalog |-> catalog,
       sources |-> SourceLists(catalog, 1),
       batch |-> discover_all_spatial_audio_tracks(catalog, 1)]
      : catalog \in FaultyCatalogs \cup Catalogs }

Discover ==
    /\ last' \in DiscoverCallSet
    /\ UNCHANGED <<db_vars, clock, scheduler, run>>

\* id lists as discover_spatial_audio_tracks passes them (no id twice):
\* short ones, one of two chunks, and two with an id of None, which makes
\* ",".join(chunk) raise for the first or the second chunk
Ids32 == [i \in 1..(chunk_size + 2) |-> ToString(i)]

RegionIdLists ==
    { <<>>, <<"1">>, <<"4", "1", "77">>, Ids32,
      [Ids32 EXCEPT ![2] = NULL], [Ids32 EXCEPT ![chunk_size + 1] = NULL] }

\* a storefront's songs: atmos by a variants list and by a variants object,
\* spatial by traits only, no signal, one of the second chunk
RegionSongs ==
    << Song("1", 1, vAtmosList), Song("2", 1, vAtmosDict),
       [Song("3", 1, vLossless) EXCEPT
           !.attributes.audioTraits = JList(<< <<"s", "p", "a", "t", "i", "a", "l">> >>)],
       Song("4", 1, vLossless), Song("31", 1, vAtmosList) >>

\* storefronts that answer, fail, lack some songs, or hold a resource whose
\* classification raises in the first or the second chunk
RegionCatalogs ==
    { [songs |->
          [sf \in {"us", "gb", "jp", "de"} |->
              CASE sf = "us" -> us
                [] sf = "gb" -> Failed
                [] sf = "jp" -> jp
                [] sf = "de" -> Ok(<<Song("1", 2, vLossless), Song("32", 1, vAtmosList),
                                     Song("1", 1, vAtmosList)>>)]]
      : us \in { Ok(RegionSongs), Ok([RegionSongs EXCEPT ![2] = Broken("2")]) },
        jp \in { Ok(RegionSongs), Ok(<<>>), Ok([RegionSongs EXCEPT ![5] = Broken("31")]) } }

\* the calls check_region_availability(track_ids)
RegionCallSet ==
    { [op |-> "check_region_availability", catalog |-> catalog,
       track_ids |-> track_ids,
       result |-> check_region_availability(catalog, track_ids)]
      : catalog \in RegionCatalogs, track_ids \in RegionIdLists }

Regions ==
    /\ last' \in RegionCallSet
    /\ UNCHANGED <<db_vars, clock, scheduler, run>>

Fetch ==
    /\ last' \in FetchCallSet
    /\ UNCHANGED <<db_vars, clock, scheduler, run>>

\* the calls get_playlist_tracks(playlist_id, storefront, limit)
PlaylistCallSet ==
    { [op |-> "get_playlist_tracks", playlist |-> playlist, limit |-> limit,
       tracks |-> get_playlist_tracks(playlist, limit, 0),
       requests |-> PlaylistCalls(playlist, limit, 0).requests]
      : playlist \in Playlists, limit \in Limits }

Paginate ==
    /\ last' \in PlaylistCallSet
    /\ UNCHANGED <<db_vars, clock, scheduler, run>>

ClientNext ==
    \/ Paginate
    \/ Classify
    \/ CheckUpgrades
    \/ Fetch
    \/ Discover
    \/ Regions
    \/ Scrape

ClientSpec == ClientInit /\ [][ClientNext]_vars

(***************************************************************************)
(* GateSpec: the credits job's page requests in time.  clock is            *)
(* time.time() in seconds; it moves to the next moment at which something  *)
(* happens.  last is the credits job's trigger and its thread:             *)
(*   due        the trigger's next run time, fires how often it came due   *)
(*   pc         "idle"; "gate": about to call fetch_credits; "sleep": in   *)
(*              _wait_for_rate_limit until wake; "request": the page       *)
(*              request and the rows of the track, until busy              *)
(*   runs       the runs started, left the tracks of the run still to do   *)
(*   last_request_time   the field of the run's CreditsScraper             *)
(*   latest, previous    the two latest page requests, [at, of]: the time  *)
(*              and the run                                                *)
(***************************************************************************)
MIN_DELAY == 5
MAX_DELAY == 10

\* IntervalTrigger(minutes=5), in seconds
credits_interval == 300

\* how often the trigger comes due
MaxFires == 3

\* how long a page request and the work on its credits may take: httpx's
\* timeout bounds each wait for the server, not the request
Durations == {1, 149}

NoRequest == [at |-> 0, of |-> 0]

\* scraper = CreditsScraper(): every run makes its own
NewScraper == [last_request_time |-> 0]

\* the run would use one scraper of the module for all runs
SharedScraper(gate) == [last_request_time |-> gate.last_request_time]

\* the scraper that a starting run uses
RunScraper(gate) == NewScraper

\* _wait_for_rate_limit up to its sleep: the time at which it goes on
WakeTime(last_request_time, current_time, jitter) ==
    LET elapsed == current_time - last_request_time
    IN  IF elapsed < MIN_DELAY
        THEN current_time + (MIN_DELAY - elapsed + jitter)
        ELSE current_time

GateInit ==
    /\ db_tracks = <<>>
    /\ db_regions = <<>>
    /\ db_engineers = <<>>
    /\ db_credits = <<>>
    /\ db_ratings = <<>>
    /\ clock = credits_interval
    /\ last = [op |-> "credits_gate", pc |-> "idle", due |-> credits_interval,
               fires |-> 0, runs |-> 0, left |-> 0, wake |-> 0, busy |-> 0,
               last_request_time |-> 0,
               latest |-> NoRequest, previous |-> NoRequest]
    /\ scheduler = "running"
    /\ run = [who \in Invocations |-> Idle]

\* the moments at which the trigger or the thread goes on
Pending ==
    (IF last.fires < MaxFires THEN {last.due} ELSE {})
    \cup (IF last.pc = "sleep" THEN {last.wake} ELSE {})
    \cup (IF last.pc = "request" THEN {last.busy} ELSE {})

\* time passes up to the next such moment
Elapse ==
    /\ last.pc \in {"idle", "sleep", "request"}
    /\ Pending # {}
    /\ \A t \in Pending : clock < t
    /\ clock' = CHOOSE t \in Pending : \A u \in Pending : t <= u
    /\ UNCHANGED <<db_vars, last, scheduler, run>>

\* the trigger comes due: a run starts with the tracks that its query
\* selects, unless the run before it is still going
GateFire ==
    /\ last.fires < MaxFires
    /\ clock = last.due
    /\ \E n \in 0..credits_limit :
          last' = IF ~MaySubmit(IF last.pc = "idle" THEN 0 ELSE 1)
                  THEN [last EXCEPT !.fires = @ + 1, !.due = @ + credits_interval]
                  ELSE [last EXCEPT !.fires = @ + 1, !.due = @ + credits_interval,
                                    !.runs = @ + 1, !.left = n,
                                    !.pc = IF n = 0 THEN "idle" ELSE "gate",
                                    !.last_request_time =
                                        RunScraper(last).last_request_time]
    /\ UNCHANGED <<db_vars, clock, scheduler, run>>

\* fetch_credits enters _wait_for_rate_limit
GateWait ==
    /\ last.pc = "gate"
    /\ \E jitter \in 0..(MAX_DELAY - MIN_DELAY) :
          last' = [last EXCEPT !.pc = "sleep",
                               !.wake = WakeTime(last.last_request_time, clock, jitter)]
    /\ UNCHANGED <<db_vars, clock, scheduler, run>>

\* _wait_for_rate_limit returns and the page is requested
GateRequest ==
    /\ last.pc = "sleep"
    /\ clock = last.wake
    /\ \E d \in Durations :
          last' = [last EXCEPT !.pc = "request", !.busy = clock + d,
                               !.last_request_time = clock,
                               !.previous = last.latest,
                               !.latest = [at |-> clock, of |-> last.runs]]
    /\ UNCHANGED <<db_vars, clock, scheduler, run>>

\* the track is done: the loop goes on or the run ends
GateDone ==
    /\ last.pc = "request"
    /\ clock = last.busy
    /\ last' = [last EXCEPT !.left = @ - 1,
                            !.pc = IF last.left = 1 THEN "idle" ELSE "gate"]
    /\ UNCHANGED <<db_vars, clock, scheduler, run>>

GateNext ==
    \/ Elapse
    \/ GateFire
    \/ GateWait
    \/ GateRequest
    \/ GateDone

GateSpec == GateInit /\ [][GateNext]_vars

(***************************************************************************)
(* JobSpec: runs of the credits job, of the silent-upgrade job and of the  *)
(* import, one at a time.  last holds the inputs of the run that led to    *)
(* the state and the tables as they were before it.                        *)
(***************************************************************************)
MaxJobRuns == 2

\* a stored row of a song the catalog gave no url for
Unlinked(row) == [row EXCEPT !.music_link = NULL]

\* the Track table as the jobs may find it: empty; Atmos rows, one without
\* a link and more with a link than a credits run takes, and a row of
\* another format; rows that are not Atmos, one of them without a catalog id
JobTables ==
    { <<>>,
      << Unlinked(StoredRow(Song("u", 1, vAtmosList), "Dolby Atmos")),
         StoredRow(Song("s", 1, vLossless), "Stereo") >>
        \o [i \in 1..(credits_limit + 1) |->
               StoredRow(Song(ToString(i), 1, vAtmosList), "Dolby Atmos")],
      << StoredRow(Song("a", 1, vLossless), "Stereo"),
         StoredRow(Song("y", 1, vLossless), "Spatial Audio"),
         StoredRow(Song("b", 2, vLossless), "Stereo"),
         StoredRow(Song("c", 1, vLossless), "Stereo"),
         StoredRow(Song("d", 1, vLossless), "Stereo"),
         StoredRow(Song(NULL, 1, vLossless), "Stereo") >> }

\* the "us" songs endpoint as a silent-upgrade run may see it: a and b now
\* Atmos, y a resource whose attributes are null, c as before, d gone; an
\* endpoint that fails; one that knows no id
JobStores ==
    { Ok(<< Song("a", 1, vAtmosList), Broken("y"), Song("b", 2, vAtmosDict),
            Song("c", 1, vLossless) >>),
      Failed,
      Ok(<<>>) }

\* what fetch_credits may return for a track's page
JobCreditLists ==
    { <<>>,
      << Credit("Ann Lee", "Mixing Engineer"),
         Credit("Bob Ray", "Mastering Engineer"),
         Credit("Ann Lee", "Mastering Engineer") >> }

JobInit ==
    /\ db_tracks \in JobTables
    /\ db_regions = <<>>
    /\ db_engineers = <<>>
    /\ db_credits = <<>>
    /\ db_ratings = <<>>
    /\ clock = 1
    /\ last = NoCall
    /\ scheduler = "None"
    /\ run = [who \in Invocations |-> Idle]

\* a run of the credits job
JobCredits ==
    /\ clock <= MaxJobRuns
    /\ \E todo \in {tracks_needing_credits(db_tracks, db_credits)} :
       \E scraped \in [DOMAIN todo -> JobCreditLists], fail \in 0..Len(todo) :
       \E r \in {scheduled_credits_fetch(Database, scraped, fail)} :
       \E w \in {CreditsTables(Database, r)} :
         /\ db_tracks' = w.tracks
         /\ db_regions' = w.regions
         /\ db_engineers' = w.engineers
         /\ db_credits' = w.credits
         /\ last' = [op |-> "scheduled_credits_fetch", todo |-> todo,
                     scraped |-> scraped, fail |-> fail, before |-> Database]
    /\ clock' = clock + 1
    /\ UNCHANGED <<db_ratings, scheduler, run>>

\* a run of the silent-upgrade job
JobUpgrade ==
    /\ clock <= MaxJobRuns
    /\ \E store \in JobStores, commitFails \in BOOLEAN :
       \E r \in {scheduled_silent_upgrade_check(db_tracks, store, commitFails, clock)} :
       \E w \in {UpgradeTables(Database, r)} :
         /\ db_tracks' = w.tracks
         /\ db_regions' = w.regions
         /\ db_engineers' = w.engineers
         /\ db_credits' = w.credits
         /\ last' = [op |-> "scheduled_silent_upgrade_check", store |-> store,
                     commitFails |-> commitFails, now |-> clock,
                     before |-> Database]
    /\ clock' = clock + 1
    /\ UNCHANGED <<db_ratings, scheduler, run>>

\* the setup script's import of data.json
JobImport ==
    /\ clock <= MaxJobRuns
    /\ \E tracks_data \in DataFiles :
       \E r \in {import_existing_data_json(db_tracks, tracks_data, clock)} :
         /\ db_tracks' = r.tracks
         /\ last' = [op |-> "import_existing_data_json",
                     tracks_data |-> tracks_data, raised |-> r.raised,
                     before |-> Database]
    /\ clock' = clock + 1
    /\ UNCHANGED <<db_regions, db_engineers, db_credits, db_ratings, scheduler, run>>

JobNext ==
    \/ JobCredits
    \/ JobUpgrade
    \/ JobImport

JobSpec == JobInit /\ [][JobNext]_vars

(***************************************************************************)
(* TokenSpec: calls of get_apple_music_token in time.  clock is            *)
(* time.time() in half seconds, so that int(current_time) is not the       *)
(* identity; last holds the module's cache and the last call.              *)
(***************************************************************************)
TOKEN_EXPIRATION_DAYS == 180
token_buffer == 3600
MaxTicks == 4

\* seconds a new token lives
TokenLife == TOKEN_EXPIRATION_DAYS * 24 * 60 * 60

\* the environment of a call: the three variables and the key file
Env(team_id, key_id, key_path, key_file) ==
    [team_id |-> team_id, key_id |-> key_id, key_path |-> key_path,
     key_file |-> key_file]

Envs ==
    { Env("TEAM", "KEY", "/keys/k.p8", "pem"),
      Env(NULL, "KEY", "/keys/k.p8", "pem"),
      Env("TEAM", "", "/keys/k.p8", "pem"),
      Env("TEAM", "KEY", NULL, "pem"),
      Env("TEAM", "KEY", "/keys/k.p8", "missing"),
      Env("TEAM", "KEY", "/keys/k.p8", "garbage") }

\* what a call raises before it has a token: ValueError, FileNotFoundError,
\* or jwt.encode's error for a key file that holds no key
Unavailable(env) ==
    \/ env.team_id \in {NULL, ""}
    \/ env.key_id \in {NULL, ""}
    \/ env.key_path \in {NULL, ""}
    \/ env.key_file # "pem"

\* no token: None as the cached token and as the value of a call that raises
NoJwt == [iss |-> NULL, iat |-> 0, exp |-> 0, kid |-> NULL]

\* _cached_token = None, _token_expires_at = 0
NoToken == [cached_token |-> NoJwt, token_expires_at |-> 0]

\* the signed token, by its claims and header
Jwt(env, iat) ==
    [iss |-> env.team_id, iat |-> iat, exp |-> iat + TokenLife, kid |-> env.key_id]

\* the call with a cached token used until it expires
get_apple_music_token_unbuffered(cache, current_time, env) ==
    LET iat == current_time \div 2
        token == Jwt(env, iat)
    IN  IF cache.cached_token # NoJwt /\ current_time < 2 * cache.token_expires_at
        THEN [raised |-> FALSE, value |-> cache.cached_token, cache |-> cache]
        ELSE IF Unavailable(env)
        THEN [raised |-> TRUE, value |-> NoJwt, cache |-> cache]
        ELSE [raised |-> FALSE, value |-> token,
              cache |-> [cached_token |-> token, token_expires_at |-> token.exp]]

\* current_time is in half seconds: current_time < expires - 3600 is
\* current_time < 2 * (expires - 3600), int(current_time) is current_time \div 2
get_apple_music_token(cache, current_time, env) ==
    LET iat == current_time \div 2
        token == Jwt(env, iat)
    IN  IF /\ cache.cached_token # NoJwt
           /\ current_time < 2 * (cache.token_expires_at - token_buffer)
        THEN [raised |-> FALSE, value |-> cache.cached_token, cache |-> cache]
        ELSE IF Unavailable(env)
        THEN [raised |-> TRUE, value |-> NoJwt, cache |-> cache]
        ELSE [raised |-> FALSE, value |-> token,
              cache |-> [cached_token |-> token, token_expires_at |-> token.exp]]

\* times between calls, in half seconds: half a second, the buffer, and an
\* instant before, at and after the time one buffer before a token expires
Waits ==
    { 1, 2 * token_buffer,
      2 * (TokenLife - token_buffer) - 1,
      2 * (TokenLife - token_buffer),
      2 * (TokenLife - token_buffer) + 1 }

TokenInit ==
    /\ db_tracks = <<>>
    /\ db_regions = <<>>
    /\ db_engineers = <<>>
    /\ db_credits = <<>>
    /\ db_ratings = <<>>
    /\ clock \in {2000, 2001}
    /\ last = [op |-> "token", called |-> FALSE, ticks |-> 0, cache |-> NoToken,
               before |-> NoToken, now |-> 0, env |-> Env(NULL, NULL, NULL, "missing"),
               raised |-> FALSE, value |-> NoJwt]
    /\ scheduler = "None"
    /\ run = [who \in Invocations |-> Idle]

\* time passes
TokenWait ==
    /\ last.ticks < MaxTicks
    /\ \E wait \in Waits : clock' = clock + wait
    /\ last' = [last EXCEPT !.ticks = @ + 1, !.called = FALSE]
    /\ UNCHANGED <<db_vars, scheduler, run>>

\* get_apple_music_token()
TokenGet ==
    /\ \E env \in Envs :
       \E r \in {get_apple_music_token(last.cache, clock, env)} :
          last' = [last EXCEPT !.called = TRUE, !.before = last.cache,
                               !.cache = r.cache, !.now = clock, !.env = env,
                               !.raised = r.raised, !.value = r.value]
    /\ UNCHANGED <<db_vars, clock, scheduler, run>>

TokenNext ==
    \/ TokenWait
    \/ TokenGet

TokenSpec == TokenInit /\ [][TokenNext]_vars

(***************************************************************************)
(* PageSpec: one get_playlist_tracks call, request by request, against a   *)
(* server that may answer each request with any response.  last holds the  *)
(* call: the caller's limit, the frame's limit and offset, the requests    *)
(* sent and the responses received.                                        *)
(***************************************************************************)
\* the interpreter's bound on nested calls, scaled down
recursion_limit == 5

\* the limits callers pass
PageLimits == {1, 3, 250}

\* a response: the number of tracks on the page and whether it has a next
\* cursor, or no usable body
Page(count, next) == [status |-> "ok", count |-> count, next |-> next]

Responses ==
    { Page(count, next) : count \in {0, 1, 100}, next \in BOOLEAN }
        \cup { [status |-> "error", count |-> 0, next |-> FALSE] }

PageIdle ==
    [op |-> "page", pc |-> "idle", caller_limit |-> 0, limit |-> 0, offset |-> 0,
     requests |-> <<>>, responses |-> <<>>, tracks |-> 0, raised |-> FALSE]

\* one frame of get_playlist_tracks: the request (its two parameters and
\* the frame's limit), the response, and either the recursive call, the
\* return up the frames, or RecursionError
PageFrame(frame, response) ==
    LET sent == [frame EXCEPT
                    !.requests = Append(@, [limit |-> Min(frame.limit, 100),
                                            offset |-> frame.offset,
                                            remaining |-> frame.limit]),
                    !.responses = Append(@, response)]
        remaining_limit == frame.limit - response.count
    IN  IF response.status # "ok" THEN [sent EXCEPT !.pc = "done"]
        ELSE IF response.next /\ remaining_limit > 0
                /\ Len(sent.requests) >= recursion_limit
        THEN [sent EXCEPT !.pc = "done", !.raised = TRUE, !.tracks = 0]
        ELSE IF response.next /\ remaining_limit > 0
        THEN [sent EXCEPT !.tracks = @ + response.count,
                          !.limit = remaining_limit,
                          !.offset = @ + response.count]
        ELSE [sent EXCEPT !.pc = "done", !.tracks = @ + response.count]

PageInit ==
    /\ db_tracks = <<>>
    /\ db_regions = <<>>
    /\ db_engineers = <<>>
    /\ db_credits = <<>>
    /\ db_ratings = <<>>
    /\ clock = 1
    /\ last = PageIdle
    /\ scheduler = "None"
    /\ run = [who \in Invocations |-> Idle]

\* get_playlist_tracks(playlist_id, storefront, limit)
PageCall ==
    /\ last.op = "page"
    /\ last.pc \in {"idle", "done"}
    /\ \E limit \in PageLimits :
          last' = [PageIdle EXCEPT !.pc = "request", !.caller_limit = limit,
                                   !.limit = limit]
    /\ UNCHANGED <<db_vars, clock, scheduler, run>>

\* _make_request returns, and the frame goes on
PageResponse ==
    /\ last.op = "page"
    /\ last.pc = "request"
    /\ \E response \in Responses : last' = PageFrame(last, response)
    /\ UNCHANGED <<db_vars, clock, scheduler, run>>

PageNext ==
    \/ PageCall
    \/ PageResponse

PageSpec == PageInit /\ [][PageNext]_vars

(***************************************************************************)
(* LiveSpec: the credits job under its interval trigger, run after run     *)
(* without end, on a Track table that no other job changes.  Each run      *)
(* finds, for each track it selected, a page that yields credits or one    *)
(* that yields none; no database statement fails.  last holds the phase    *)
(* of the runs (a run that changes no row is still a step), the tracks     *)
(* the last run selected and the tracks that some run has scraped.  The    *)
(* trigger fires every five minutes while the scheduler runs: weak         *)
(* fairness of the run.                                                    *)
(***************************************************************************)
\* the Track table: three or six Atmos rows with a link, after an Atmos row
\* without one and a row of another format
LiveTables ==
    LET rows == << Unlinked(StoredRow(Song("u", 1, vAtmosList), "Dolby Atmos")),
                   StoredRow(Song("s", 1, vLossless), "Stereo") >>
                 \o [i \in 1..(credits_limit + 1) |->
                        StoredRow(Song(ToString(i), 1, vAtmosList), "Dolby Atmos")]
    IN  { SubSeq(rows, 1, n) : n \in {credits_limit, Len(rows)} }

\* what fetch_credits may return for a track's page: no credits, or one
LiveCreditLists == { <<>>, << Credit("Ann Lee", "Mixing Engineer") >> }

LiveInit ==
    /\ db_tracks \in LiveTables
    /\ db_regions = <<>>
    /\ db_engineers = <<>>
    /\ db_credits = <<>>
    /\ db_ratings = <<>>
    /\ clock = 1
    /\ last = [op |-> "credits_runs", phase |-> 0, todo |-> <<>>, scraped |-> {}]
    /\ scheduler = "running"
    /\ run = [who \in Invocations |-> Idle]

\* a run of the credits job
LiveCredits ==
    /\ \E todo \in {tracks_needing_credits(db_tracks, db_credits)} :
       \E scraped \in [DOMAIN todo -> LiveCreditLists] :
       \E r \in {scheduled_credits_fetch(Database, scraped, 0)} :
       \E w \in {CreditsTables(Database, r)} :
         /\ db_tracks' = w.tracks
         /\ db_regions' = w.regions
         /\ db_engineers' = w.engineers
         /\ db_credits' = w.credits
         /\ last' = [op |-> "credits_runs", phase |-> 1 - last.phase,
                     todo |-> todo,
                     scraped |-> last.scraped
                                 \cup { todo[k] : k \in DOMAIN todo }]
    /\ UNCHANGED <<db_ratings, clock, scheduler, run>>

LiveNext == LiveCredits

LiveSpec == LiveInit /\ [][LiveNext]_vars /\ WF_vars(LiveCredits)

(***************************************************************************)
(* LifeSpec: start_scheduler and stop_scheduler called in any order, and   *)
(* the triggers of the schedulers that run.  scheduler is the module's     *)
(* global and the BackgroundScheduler objects made so far: ref is the      *)
(* object the global names (0 for None), made the objects, each with its   *)
(* jobs and whether its thread runs.  A job is [id, func, trigger, fired], *)
(* trigger the interval in minutes, fired how often it has come due.       *)
(* last holds the last call and whether it found a scheduler.              *)
(***************************************************************************)
\* how many schedulers are made, and how often a job comes due
MaxStarts == 2
MaxDue == 2

NoScheduler == [ref |-> 0, made |-> <<>>]

\* IntervalTrigger(days=, hours=, minutes=): the interval in minutes
IntervalTrigger(days, hours, minutes) == (days * 24 + hours) * 60 + minutes

\* scheduler.add_job(func, trigger, id, replace_existing=True) on a scheduler
\* that has not started: the job takes the place of one with its id
add_job(jobs, func, trigger, id) ==
    LET job == [id |-> id, func |-> func, trigger |-> trigger, fired |-> 0]
    IN  IF \E i \in DOMAIN jobs : jobs[i].id = id
        THEN [i \in DOMAIN jobs |-> IF jobs[i].id = id THEN job ELSE jobs[i]]
        ELSE Append(jobs, job)

\* the three add_job calls of start_scheduler
RegisteredJobs ==
    add_job(add_job(add_job(<<>>,
        "scheduled_spatial_audio_scan", IntervalTrigger(0, 48, 0),
        "spatial_audio_scan"),
        "scheduled_silent_upgrade_check", IntervalTrigger(7, 0, 0),
        "silent_upgrade_check"),
        "scheduled_credits_fetch", IntervalTrigger(0, 0, 5),
        "credits_fetch")

\* start_scheduler without its test of the global
start_scheduler_unguarded(s) ==
    [ref |-> Len(s.made) + 1,
     made |-> Append(s.made, [jobs |-> RegisteredJobs, running |-> TRUE])]

start_scheduler(s) ==
    IF s.ref # 0 THEN s
    ELSE [ref |-> Len(s.made) + 1,
          made |-> Append(s.made, [jobs |-> RegisteredJobs, running |-> TRUE])]

stop_scheduler(s) ==
    IF s.ref = 0 THEN s
    ELSE [ref |-> 0, made |-> [s.made EXCEPT ![s.ref].running = FALSE]]

LifeInit ==
    /\ db_tracks = <<>>
    /\ db_regions = <<>>
    /\ db_engineers = <<>>
    /\ db_credits = <<>>
    /\ db_ratings = <<>>
    /\ clock = 1
    /\ last = [op |-> "none", found |-> FALSE]
    /\ scheduler = NoScheduler
    /\ run = [who \in Invocations |-> Idle]

LifeStart ==
    /\ scheduler.ref # 0 \/ Len(scheduler.made) < MaxStarts
    /\ scheduler' = start_scheduler(scheduler)
    /\ last' = [op |-> "start_scheduler", found |-> scheduler.ref # 0]
    /\ UNCHANGED <<db_vars, clock, run>>

LifeStop ==
    /\ scheduler' = stop_scheduler(scheduler)
    /\ last' = [op |-> "stop_scheduler", found |-> scheduler.ref # 0]
    /\ UNCHANGED <<db_vars, clock, run>>

\* the trigger of a job of a running scheduler comes due
LifeDue ==
    /\ \E k \in DOMAIN scheduler.made : \E i \in DOMAIN scheduler.made[k].jobs :
          /\ scheduler.made[k].running
          /\ scheduler.made[k].jobs[i].fired < MaxDue
          /\ scheduler' = [scheduler EXCEPT !.made[k].jobs[i].fired = @ + 1]
    /\ UNCHANGED <<db_vars, clock, last, run>>

LifeNext ==
    \/ LifeStart
    \/ LifeStop
    \/ LifeDue

LifeSpec == LifeInit /\ [][LifeNext]_vars

(***************************************************************************)
(* Properties of Spec                                                      *)
(***************************************************************************)
\* the step is a sync that returned its counts and in which no statement
\* raised
CleanSync(l) == l.op = "sync" /\ ~l.raised /\ l.errors = 0

ExternalIds(rows) == { rows[i].apple_music_id : i \in DOMAIN rows } \ {NULL}

\* C1: when a sync of batch B has committed and the next invocation is a
\* sync of the same B, both without a statement raising, the second call
\* reports added = 0 and updated = |B| and leaves the same Track rows by
\* external id.
C1_SyncIdempotent ==
    [][ (CleanSync(last') /\ last'.repeat)
        => /\ last'.tracks_added = 0
           /\ last'.tracks_updated = Len(last'.batch)
           /\ ExternalIds(db_tracks') = ExternalIds(db_tracks)
           /\ Len(db_tracks') = Len(db_tracks) ]_vars

\* a second sync of a batch of two tracks has returned
C1_Witness ==
    /\ CleanSync(last)
    /\ last.repeat
    /\ Len(last.batch) = 2
    /\ last.tracks_updated = 2

\* the four strategies' lists, one after the other
Flat(sources) == sources[1] \o sources[2] \o sources[3] \o sources[4]

\* C3: the list discover_all_spatial_audio_tracks returns holds no external
\* id twice, and each entry is, unchanged, the first entry with its id in
\* the four strategies' results taken in their order.
C3_FirstOccurrenceWins ==
    last.op = "sync" =>
        LET all == Flat(last.sources)
            batch == last.batch
        IN  /\ \A i, j \in DOMAIN batch :
                  i # j => batch[i].apple_music_id # batch[j].apple_music_id
            /\ \A i \in DOMAIN batch :
                  \E k \in DOMAIN all :
                      /\ all[k] = batch[i]
                      /\ \A m \in 1..(k - 1) :
                            all[m].apple_music_id # batch[i].apple_music_id

\* two strategies found the same id with different data
C3_Witness ==
    /\ last.op = "sync"
    /\ \E k, m \in DOMAIN Flat(last.sources) :
          /\ k < m
          /\ Flat(last.sources)[k].apple_music_id = Flat(last.sources)[m].apple_music_id
          /\ Flat(last.sources)[k] # Flat(last.sources)[m]
          /\ \E i \in DOMAIN last.batch : last.batch[i] = Flat(last.sources)[k]

\* the stored availability records of the track with this external id
StoredRegions(apple_music_id) ==
    LET track_id == FindByAppleId(db_tracks, apple_music_id)
        mine == SelectSeq(db_regions, LAMBDA r : r.track_id = track_id)
    IN  [i \in DOMAIN mine |-> [storefront |-> mine[i].storefront,
                                is_available |-> mine[i].is_available,
                                format |-> mine[i].format]]

\* C4: after a committed sync in which no statement raised, the stored
\* availability records of every discovered track that carries region data
\* are exactly the records of that data.
C4_RegionsReplaced ==
    CleanSync(last) =>
        \A i \in DOMAIN last.batch :
            last.batch[i].region_availability.present =>
                StoredRegions(last.batch[i].apple_music_id)
                    = last.batch[i].region_availability.items

\* a sync has merged a track that carries region data into a row that an
\* earlier sync had stored
C4_Witness ==
    /\ CleanSync(last)
    /\ \E i \in DOMAIN last.batch :
          LET track == db_tracks[FindByAppleId(db_tracks, last.batch[i].apple_music_id)]
          IN  /\ last.batch[i].region_availability.present
              /\ Len(last.batch[i].region_availability.items) = 3
              /\ track.discovered_at # track.updated_at

\* C5: storage never holds two RegionAvailability records of the same track
\* and storefront.
C5_OneRecordPerStorefront ==
    \A i, j \in DOMAIN db_regions :
        (/\ db_regions[i].track_id = db_regions[j].track_id
         /\ db_regions[i].storefront = db_regions[j].storefront) => i = j

\* a second sync has merged two tracks, one with region data
C5_Witness ==
    /\ last.op = "sync"
    /\ ~last.raised
    /\ last.tracks_updated = 2
    /\ db_regions # <<>>
    /\ \E i \in DOMAIN last.batch : ~last.batch[i].region_availability.present

\* the columns that the merge does not name
KeptColumns ==
    {"apple_music_id", "platform", "album_art", "discovered_at",
     "hall_of_shame", "avg_immersiveness", "review_summary"}

\* C6: a sync leaves, in every Track row that existed before it, every
\* column other than title, artist, album, format, release_date,
\* atmos_release_date, music_link, metadata and updated_at as it was.
C6_MergeFrame ==
    [][ last'.op = "sync"
        => \A i \in DOMAIN db_tracks :
              /\ i \in DOMAIN db_tracks'
              /\ \A c \in KeptColumns : db_tracks'[i][c] = db_tracks[i][c] ]_vars

\* a sync has merged a discovered track into a row that carries a rating
C6_Witness ==
    /\ last.op = "sync"
    /\ ~last.raised
    /\ \E i \in DOMAIN db_tracks :
          /\ db_tracks[i].avg_immersiveness # NoFloat
          /\ db_tracks[i].updated_at = DT(clock - 1)
          /\ db_tracks[i].discovered_at # db_tracks[i].updated_at

\* C7: a sync in which a database statement raises leaves the Track and
\* RegionAvailability tables as they were before the call and raises to
\* its caller.
C7_AtomicBatch ==
    [][ (last'.op = "sync" /\ (last'.errors > 0 \/ last'.raised))
        => /\ last'.raised
           /\ db_tracks' = db_tracks
           /\ db_regions' = db_regions ]_vars

\* a sync in which the flush of an item raised
C7_Witness ==
    /\ last.op = "sync"
    /\ last.errors > 0
    /\ ~last.raised
    /\ last.tracks_added > 0

\* C24: whatever credits-job runs have happened, no two Engineer rows have
\* the same name and no two TrackCredit rows the same track, engineer and
\* role
C24_NoDuplicateCredits ==
    /\ \A i, j \in DOMAIN db_engineers :
          db_engineers[i].name = db_engineers[j].name => i = j
    /\ \A i, j \in DOMAIN db_credits :
          db_credits[i] = db_credits[j] => i = j

\* a credits run has left one engineer credited on two tracks and credited
\* twice on one track
C24_Witness ==
    /\ last.op = "credits"
    /\ \E i, j \in DOMAIN db_credits :
          /\ db_credits[i].engineer_id = db_credits[j].engineer_id
          /\ db_credits[i].track_id # db_credits[j].track_id
    /\ \E i, j \in DOMAIN db_credits :
          /\ i # j
          /\ db_credits[i].engineer_id = db_credits[j].engineer_id
          /\ db_credits[i].track_id = db_credits[j].track_id

\* C25: a credits run adds Engineer and TrackCredit rows and leaves every
\* Track and RegionAvailability row as it was; a sync and a silent-upgrade
\* run leave the Engineer and TrackCredit rows as they were
C25_Ownership ==
    [][/\ last'.op = "credits" =>
             /\ db_tracks' = db_tracks
             /\ db_regions' = db_regions
             /\ Len(db_engineers') >= Len(db_engineers)
             /\ SubSeq(db_engineers', 1, Len(db_engineers)) = db_engineers
             /\ Len(db_credits') >= Len(db_credits)
             /\ SubSeq(db_credits', 1, Len(db_credits)) = db_credits
       /\ last'.op \in {"sync", "silent_upgrade"} =>
             /\ db_engineers' = db_engineers
             /\ db_credits' = db_credits]_vars

\* a sync or a silent-upgrade run has changed Track rows of a store in
\* which a credits run had left rows
C25_Witness ==
    /\ last.op \in {"sync", "silent_upgrade"}
    /\ last.tracks_updated > 0
    /\ db_credits # <<>>
    /\ db_engineers # <<>>
    /\ db_regions # <<>>

\* C26: a track that discovery returns has an atmos_release_date exactly
\* when its format is Dolby Atmos, and that date is its release_date
C26_AtmosDate ==
    last.op = "sync" =>
        \A i \in DOMAIN last.batch :
            /\ last.batch[i].atmos_release_date # NoDate
                  <=> last.batch[i].format = "Dolby Atmos"
            /\ last.batch[i].atmos_release_date # NoDate
                  => last.batch[i].atmos_release_date = last.batch[i].release_date

\* discovery has returned two Dolby Atmos tracks of different audio variants
\* whose release dates are not the time of the discovery
C26_Witness ==
    /\ last.op = "sync"
    /\ \E i, j \in DOMAIN last.batch :
          /\ last.batch[i].metadata.audio_variants # last.batch[j].metadata.audio_variants
          /\ \A k \in {i, j} :
                /\ last.batch[k].format = "Dolby Atmos"
                /\ last.batch[k].atmos_release_date = last.batch[k].release_date
                /\ last.batch[k].release_date # DT(clock - 1)

\* the availability rows of the track with this row id
RegionsOf(rows, track_id) == SelectSeq(rows, LAMBDA r : r.track_id = track_id)

\* C34: a sync changes the stored RegionAvailability records of a track only
\* if the track's discovery entry carries a region list: the records of
\* a discovered track without region data, and of every track that was not
\* discovered, are after the sync what they were before it.
C34_RegionsFrame ==
    [][ last'.op = "sync"
        => \A track_id \in 1..Len(db_tracks') :
              RegionsOf(db_regions', track_id) # RegionsOf(db_regions, track_id)
              => \E i \in DOMAIN last'.batch :
                    /\ last'.batch[i].apple_music_id
                          = db_tracks'[track_id].apple_music_id
                    /\ last'.batch[i].region_availability.present ]_vars

\* a sync has merged a discovered track without region data into a row that
\* has availability records
C34_Witness ==
    /\ last.op = "sync"
    /\ ~last.raised
    /\ last.errors = 0
    /\ \E i \in DOMAIN last.batch :
          /\ ~last.batch[i].region_availability.present
          /\ Len(StoredRegions(last.batch[i].apple_music_id)) = 3
          /\ LET track == db_tracks[FindByAppleId(db_tracks,
                                                  last.batch[i].apple_music_id)]
             IN  track.updated_at = DT(clock - 1)

\* C37: the counts that a sync returns are exact: tracks_added is the number
\* of Track rows that the call added to storage and tracks_updated the
\* number of rows that existed before the call and that it merged (their
\* updated_at is the time of the call), also when an item was skipped for
\* an error.
C37_CountsExact ==
    [][ (last'.op = "sync" /\ ~last'.raised)
        => /\ Len(db_tracks') = Len(db_tracks) + last'.tracks_added
           /\ last'.tracks_updated
                 = Cardinality({ i \in DOMAIN db_tracks :
                                    db_tracks'[i].updated_at = DT(clock) }) ]_vars

\* a sync of two tracks has returned counts after it merged one into its
\* row and skipped the other, whose lookup raised
C37_Witness ==
    /\ last.op = "sync"
    /\ ~last.raised
    /\ last.errors = 1
    /\ last.tracks_added = 0
    /\ last.tracks_updated = 1
    /\ Len(last.batch) = 2

\* the row is a Dolby Atmos track that has the date of its Atmos mix
AtmosDated(track) ==
    /\ track.format = "Dolby Atmos"
    /\ track.atmos_release_date # NoDate

\* C38: a stored Track that is Dolby Atmos with a non-null atmos_release_date
\* stays so in every later step: no sync, silent-upgrade run or other
\* operation changes its format or clears the date.
C38_AtmosKept ==
    [][ \A i \in DOMAIN db_tracks :
           AtmosDated(db_tracks[i])
           => /\ i \in DOMAIN db_tracks'
              /\ AtmosDated(db_tracks'[i]) ]_vars

\* a sync has merged a discovered track, with another date of release, into
\* the Atmos row that an earlier sync stored
C38_Witness ==
    /\ last.op = "sync"
    /\ ~last.raised
    /\ \E i \in DOMAIN db_tracks :
          /\ AtmosDated(db_tracks[i])
          /\ db_tracks[i].apple_music_id # NULL
          /\ db_tracks[i].updated_at = DT(clock - 1)
          /\ db_tracks[i].discovered_at # db_tracks[i].updated_at
          /\ db_tracks[i].atmos_release_date # db_tracks[i].discovered_at

(***************************************************************************)
(* Properties of SchedSpec                                                 *)
(***************************************************************************)
\* C2: in every reachable state of storage no two Track rows have the same
\* non-null apple_music_id, whatever runs of the scan, the refresh, the
\* silent-upgrade check and the credits job produced it and however they
\* interleaved
C2_UniqueExternalId ==
    \A i, j \in DOMAIN db_tracks :
        (i # j /\ db_tracks[i].apple_music_id # NULL)
            => db_tracks[i].apple_music_id # db_tracks[j].apple_music_id

\* two syncs have run to their end and storage holds several rows with an
\* external id
C2_Witness ==
    /\ \A who \in SyncCallers :
          run[who].pc = "idle" /\ run[who].started > 0
    /\ \E who \in SyncCallers : run[who].outcome = "returned" /\ ~run[who].failed
    /\ \E i, j \in DOMAIN db_tracks :
          i # j /\ db_tracks[i].apple_music_id # NULL
                /\ db_tracks[j].apple_music_id # NULL

C9_NoOverlap ==
    \A job \in Jobs :
        /\ run[job].instances <= 1
        /\ run[job].pc # "idle" <=> run[job].instances = 1

\* a trigger of a running job has been skipped
C9_Witness ==
    \E job \in Jobs :
        run[job].skipped /\ run[job].instances = 1 /\ run[job].pc # "idle"

\* C10: the invocations (the three jobs, a refresh request) are serialized
\* with respect to storage: while the open transaction of one holds an
\* uncommitted write of a Track row, no other invocation has an open
\* transaction that writes that row
C10_Serialized ==
    \A who, other \in Invocations :
        who # other => Held(run[who]) \cap WriteSet(run[other]) = {}

(***************************************************************************)
(* Properties of ClientSpec                                                *)
(***************************************************************************)
\* C11: get_playlist_tracks with limit L on a playlist of N tracks returns
\* the first min(L, N) tracks in playlist order; when the server's pages
\* have the size asked for, request number i asks for min(remainder, 100)
\* tracks at the offset of the tracks fetched so far, and a follow-up
\* request is sent only while the remainder is positive and tracks are left
C11_PlaylistLimit ==
    (last.op = "get_playlist_tracks" /\ last.playlist.status = "ok") =>
        LET N == Len(last.playlist.items)
            L == last.limit
        IN  /\ last.tracks = SubSeq(last.playlist.items, 1, Min(L, N))
            /\ last.playlist.page >= 100 =>
                 /\ Len(last.requests) >= 1
                 /\ \A i \in DOMAIN last.requests :
                      /\ last.requests[i].offset = 100 * (i - 1)
                      /\ last.requests[i].limit = Min(L - 100 * (i - 1), 100)
                      /\ i > 1 => (L - 100 * (i - 1) > 0 /\ 100 * (i - 1) < N)

\* 150 tracks in pages of 100 with limit 120: 100 tracks, then 20
C11_Witness ==
    /\ last.op = "get_playlist_tracks"
    /\ last.playlist.status = "ok"
    /\ Len(last.playlist.items) = 150
    /\ last.playlist.page = 100
    /\ last.limit = 120
    /\ Len(last.tracks) = 120
    /\ last.requests = << [limit |-> 100, offset |-> 0],
                          [limit |-> 20, offset |-> 100] >>

\* the text of a variant (or trait) holds one of the keywords, whatever
\* its case
Mentions(value, pats) ==
    \E i \in DOMAIN value.items : \E p \in pats :
        \E k \in 0..(Len(value.items[i]) - Len(p)) :
            \A c \in 1..Len(p) :
                \E u \in DOMAIN LowerCase :
                    /\ LowerCase[u] = p[c]
                    /\ value.items[i][k + c] \in {LowerCase[u], UpperCase[u]}

Classified == last.op = "check_spatial_audio_support" /\ ~last.raised

\* C12: a raw track whose audioVariants is a list or an object with an
\* element that contains "atmos" or "dolby", in any case, classifies as
\* has_dolby_atmos = has_spatial_audio = TRUE
C12_VariantsSignal ==
    (/\ Classified
     /\ last.track_data.attributes.kind = "dict"
     /\ last.track_data.attributes.audioVariants.kind \in {"list", "dict"}
     /\ Mentions(last.track_data.attributes.audioVariants, {cAtmos, cDolby}))
        => last.result.has_dolby_atmos /\ last.result.has_spatial_audio

\* an object whose value is "ATMOS" in capitals
C12_Witness ==
    /\ Classified
    /\ last.track_data.attributes.kind = "dict"
    /\ last.track_data.attributes.audioVariants = vAtmosDict
    /\ last.result.has_dolby_atmos

C14_AtmosImpliesSpatial ==
    Classified => (last.result.has_dolby_atmos => last.result.has_spatial_audio)

\* a track classified as atmos
C14_Witness ==
    Classified /\ last.result.has_dolby_atmos /\ last.result.has_spatial_audio

\* C15: has_spatial_audio does not imply has_dolby_atmos: a raw track with
\* a spatial signal and no atmos signal (a trait that contains "spatial",
\* no variant and no trait that contains "atmos" or "dolby") classifies as
\* has_spatial_audio without has_dolby_atmos, and the track discovered
\* from it has the format Spatial Audio
C15_SpatialWithoutAtmos ==
    (/\ Classified
     /\ last.track_data.attributes.kind = "dict"
     /\ Mentions(last.track_data.attributes.audioTraits, {cSpatial})
     /\ ~Mentions(last.track_data.attributes.audioTraits, {cAtmos, cDolby})
     /\ ~Mentions(last.track_data.attributes.audioVariants, {cAtmos, cDolby}))
        => /\ last.result.has_spatial_audio
           /\ ~last.result.has_dolby_atmos
           /\ _extract_track_info(last.track_data, last.result, 1).format
                 = "Spatial Audio"

\* a track whose only signal is the trait "spatial" has been classified:
\* both flags are set
C15_Witness ==
    /\ Classified
    /\ last.track_data.attributes.kind = "dict"
    /\ last.track_data.attributes.audioVariants.kind = "absent"
    /\ last.track_data.attributes.audioTraits = JList(<< cSpatial >>)
    /\ last.result.has_spatial_audio
    /\ last.result.has_dolby_atmos

\* the re-fetch of the external id from the store shows an atmos variant
ShowsAtmos(store, apple_music_id) ==
    /\ store.status = "ok"
    /\ \E i \in DOMAIN store.items :
          /\ store.items[i].id = apple_music_id
          /\ \A j \in 1..(i - 1) : store.items[j].id # apple_music_id
          /\ store.items[i].attributes.kind = "dict"
          /\ store.items[i].attributes.audioVariants.kind \in {"list", "dict"}
          /\ Mentions(store.items[i].attributes.audioVariants, {cAtmos})

\* C16: a silent-upgrade check that commits gives every stored track whose
\* format is not Dolby Atmos, and whose re-fetch by its external id shows
\* an atmos variant, the format Dolby Atmos, an atmos_release_date equal to
\* the time of the check and an updated_at equal to the time of the check
C16_SilentUpgrade ==
    [][(last'.op = "scheduled_silent_upgrade_check" /\ ~last'.commitFails) =>
         /\ Len(db_tracks') = Len(db_tracks)
         /\ \A i \in DOMAIN db_tracks :
              (/\ db_tracks[i].format # "Dolby Atmos"
               /\ db_tracks[i].apple_music_id # NULL
               /\ ShowsAtmos(last'.store, db_tracks[i].apple_music_id))
                 => /\ db_tracks'[i].format = "Dolby Atmos"
                    /\ db_tracks'[i].atmos_release_date = DT(last'.now)
                    /\ db_tracks'[i].updated_at = DT(last'.now)]_vars

\* a track has been upgraded: its Atmos date is the time of the check and
\* differs from its release date
C16_Witness ==
    /\ last.op = "scheduled_silent_upgrade_check"
    /\ \E i \in DOMAIN db_tracks :
          /\ db_tracks[i].format = "Dolby Atmos"
          /\ db_tracks[i].atmos_release_date = DT(last.now)
          /\ db_tracks[i].updated_at = DT(last.now)
          /\ db_tracks[i].release_date # DT(last.now)

\* C17: a fetch (tracks by ids, playlist tracks, album tracks) whose
\* request fails by timeout, non-2xx response, network error or unreadable
\* body, or that has no developer token, returns the empty list and does
\* not raise
C17_FetchDegrades ==
    (/\ last.op = "fetch"
     /\ last.developer_token = NULL \/ last.reply.status # "ok"
     /\ last.fn = "get_catalog_tracks" => \A i \in DOMAIN last.ids : last.ids[i] # NULL)
        => ~last.raised /\ last.result = <<>>

\* a fetch of ids whose response could not be read, with a token
C17_Witness ==
    /\ last.op = "fetch"
    /\ last.fn = "get_catalog_tracks"
    /\ last.developer_token # NULL
    /\ last.reply.status = "invalid_json"
    /\ last.ids = <<"b", "a">>
    /\ ~last.raised
    /\ last.result = <<>>

\* the track lists that the strategies fetch, in the order in which they
\* process them: the playlists of strategies 1 and 2, the albums of the
\* chart, the search terms' songs; a failed request is an empty list
Containers(catalog) ==
    << [k \in DOMAIN SPATIAL_AUDIO_PLAYLISTS |->
           get_playlist_tracks(catalog.playlists[SPATIAL_AUDIO_PLAYLISTS[k]], 100, 0)],
       [k \in DOMAIN (NEW_MUSIC_PLAYLISTS \o CHART_PLAYLISTS) |->
           get_playlist_tracks(
               catalog.playlists[(NEW_MUSIC_PLAYLISTS \o CHART_PLAYLISTS)[k]], 100, 0)],
       IF catalog.charts.status # "ok" THEN <<>>
       ELSE [k \in DOMAIN catalog.charts.albums |->
               IF catalog.charts.albums[k].id = NULL THEN <<>>
               ELSE _get_album_tracks(catalog.charts.albums[k])],
       [k \in DOMAIN search_terms |->
           IF catalog.search[search_terms[k]].status # "ok" THEN <<>>
           ELSE catalog.search[search_terms[k]].items] >>

\* container k of the strategy fails: its request fails or comes back
\* empty, or one of its resources raises
FailedContainer(lists, k) ==
    lists[k] = <<>> \/ \E i \in DOMAIN lists[k] : Raises(lists[k][i])

\* C18: in each discovery strategy a failure in one playlist, album or
\* search term (a request that fails or is empty, a resource that raises)
\* does not keep the others from being processed: every spatial track of a
\* container that is not preceded in its own container by a resource that
\* raises, and whose id occurs nowhere before it in the strategy, is in
\* the strategy's result; and every strategy's tracks reach the result of
\* discover_all_spatial_audio_tracks
C18_FailureIsolation ==
    last.op = "discover_all_spatial_audio_tracks" =>
        \A st \in 1..4 :
            LET lists == Containers(last.catalog)[st]
                out == last.sources[st]
            IN  /\ \A k \in DOMAIN lists : \A i \in DOMAIN lists[k] :
                      LET t == lists[k][i]
                      IN  (/\ \A j \in 1..(i - 1) :
                                  ~Raises(lists[k][j]) /\ lists[k][j].id # t.id
                           /\ \A m \in 1..(k - 1) : \A j \in DOMAIN lists[m] :
                                  lists[m][j].id # t.id
                           /\ ~Raises(t)
                           /\ check_spatial_audio_support(t).has_spatial_audio)
                             => \E n \in DOMAIN out : out[n].apple_music_id = t.id
                /\ \A n \in DOMAIN out :
                      out[n].apple_music_id # NULL =>
                          \E b \in DOMAIN last.batch :
                              last.batch[b].apple_music_id = out[n].apple_music_id

\* in each of the four strategies a container failed and a later
\* container's track was collected; the tracks collected before the
\* exception in the first playlist and the album are in the result
C18_Witness ==
    /\ last.op = "discover_all_spatial_audio_tracks"
    /\ \A st \in 1..4 :
          \E k \in DOMAIN Containers(last.catalog)[st] :
              /\ FailedContainer(Containers(last.catalog)[st], k)
              /\ \E m \in (k + 1)..Len(Containers(last.catalog)[st]) :
                 \E i \in DOMAIN Containers(last.catalog)[st][m] :
                 \E n \in DOMAIN last.sources[st] :
                     last.sources[st][n].apple_music_id
                         = Containers(last.catalog)[st][m][i].id
    /\ \E i \in DOMAIN Containers(last.catalog)[1][1] :
          Raises(Containers(last.catalog)[1][1][i])
    /\ {"a", "c", "d", "e", "f", "g", "h"} \subseteq
          { last.batch[b].apple_music_id : b \in DOMAIN last.batch }

\* the chunk of track_ids that holds index pos
ChunkAt(track_ids, pos) ==
    SubSeq(track_ids,
           ((pos - 1) \div chunk_size) * chunk_size + 1,
           Min(((pos - 1) \div chunk_size) * chunk_size + chunk_size, Len(track_ids)))

\* what storefront number sf answers for the chunk that holds index pos
ResponseAt(catalog, track_ids, sf, pos) ==
    get_catalog_tracks(catalog.songs[TARGET_STOREFRONTS[sf]], ChunkAt(track_ids, pos))

InResponse(tracks, track_id) == \E i \in DOMAIN tracks : tracks[i].id = track_id

\* the id at index q makes the pass over its chunk raise in storefront sf
RaisesAt(catalog, track_ids, sf, q) ==
    \/ JoinRaises(ChunkAt(track_ids, q))
    \/ /\ InResponse(ResponseAt(catalog, track_ids, sf, q), track_ids[q])
       /\ Raises(Found(ResponseAt(catalog, track_ids, sf, q), track_ids[q]))

\* the pass over the chunk that holds index pos ran to its end in storefront sf
Completed(catalog, track_ids, sf, pos) ==
    \A q \in DOMAIN track_ids :
        ChunkAt(track_ids, q) = ChunkAt(track_ids, pos)
            => ~RaisesAt(catalog, track_ids, sf, q)

\* the record that the claim prescribes for an id in a storefront
ExpectedRecord(tracks, storefront, track_id) ==
    [storefront |-> storefront,
     is_available |-> InResponse(tracks, track_id),
     format |->
        IF ~InResponse(tracks, track_id) THEN "Stereo"
        ELSE IF Mentions(Found(tracks, track_id).attributes.audioVariants,
                         {<<"a", "t", "m", "o", "s">>, <<"d", "o", "l", "b", "y">>})
                \/ Mentions(Found(tracks, track_id).attributes.audioTraits,
                            {<<"a", "t", "m", "o", "s">>, <<"s", "p", "a", "t", "i", "a", "l">>})
        THEN "Dolby Atmos"
        ELSE "Stereo"]

RecordsOf(records, storefront) ==
    { n \in DOMAIN records : records[n].storefront = storefront }

Recorded(catalog, track_ids, sf, pos) ==
    /\ ~JoinRaises(ChunkAt(track_ids, pos))
    /\ \A q \in 1..pos :
          ChunkAt(track_ids, q) = ChunkAt(track_ids, pos)
              => ~RaisesAt(catalog, track_ids, sf, q)

\* C20: a failure while one (storefront, chunk) is processed leaves the
\* records of every other storefront and chunk as they are without it, and
\* the remaining pairs are still processed: each id's records are, in
\* storefront order, the records of the storefronts in which nothing raised
\* in its chunk up to it
C20_PartialFailure ==
    (/\ last.op = "check_region_availability"
     /\ \E pos \in DOMAIN last.track_ids : \E sf \in DOMAIN TARGET_STOREFRONTS :
           ~Completed(last.catalog, last.track_ids, sf, pos)) =>
        \A pos \in DOMAIN last.track_ids :
            LET records == last.result[last.track_ids[pos]]
                done == { sf \in DOMAIN TARGET_STOREFRONTS :
                            Recorded(last.catalog, last.track_ids, sf, pos) }
            IN  /\ Len(records) = Cardinality(done)
                /\ \A sf \in done :
                      \E n \in DOMAIN records :
                          /\ records[n] =
                                ExpectedRecord(
                                    ResponseAt(last.catalog, last.track_ids, sf, pos),
                                    TARGET_STOREFRONTS[sf], last.track_ids[pos])
                          /\ n = Cardinality({ g \in done : g <= sf })

\* the first chunk failed in one storefront and the second chunk in
\* another, the first chunk was still recorded in the storefronts after
\* the failure and the second chunk in the same storefront
C20_Witness ==
    /\ last.op = "check_region_availability"
    /\ Len(last.track_ids) > chunk_size
    /\ ~Completed(last.catalog, last.track_ids, 1, 1)
    /\ Completed(last.catalog, last.track_ids, 1, chunk_size + 1)
    /\ ~Completed(last.catalog, last.track_ids, 3, chunk_size + 1)
    /\ Completed(last.catalog, last.track_ids, 3, 1)
    /\ Len(last.result[last.track_ids[1]]) = 4
    /\ Len(last.result[last.track_ids[3]]) = 3
    /\ Len(last.result[last.track_ids[chunk_size + 1]]) = 3
    /\ Len(last.result[last.track_ids[chunk_size + 2]]) = 3

\* no layer extracts a credit: the request fails, the page does not parse,
\* or no text on it holds a role followed by a name
NoLayerExtracts(page) ==
    \/ page.status # "ok"
    \/ page.soup_raises
    \/ /\ \A k \in DOMAIN page.selected : \A n \in DOMAIN page.selected[k].texts :
             _parse_credit_text(page.selected[k].texts[n]) = <<>>
       /\ \/ page.text_content.raises
          \/ _parse_credit_text(page.text_content.text) = <<>>

\* C21: fetch_credits never raises: for every page and every failure of the
\* request it returns a list, the empty one when no layer extracts a credit
C21_FetchCreditsReturns ==
    last.op = "fetch_credits" =>
        /\ ~last.result.raised
        /\ DOMAIN last.result.value = 1..Len(last.result.value)
        /\ NoLayerExtracts(last.page) => last.result.value = <<>>

\* the request failed for a page that holds a credit, and the call returned
\* the empty list
C21_Witness ==
    /\ last.op = "fetch_credits"
    /\ last.page.status = "timeout"
    /\ _parse_credit_text(last.page.text_content.text) # <<>>
    /\ ~last.result.raised
    /\ last.result.value = <<>>

\* C23: the list that fetch_credits returns holds no two credits with the
\* same lowercased name and lowercased role, and every name in it is longer
\* than 2 and shorter than 100 characters
C23_UniqueCredits ==
    last.op = "fetch_credits" =>
        /\ \A i, j \in DOMAIN last.result.value :
              (/\ LowerStr(last.result.value[i].name) = LowerStr(last.result.value[j].name)
               /\ LowerStr(last.result.value[i].role) = LowerStr(last.result.value[j].role))
                 => i = j
        /\ \A i \in DOMAIN last.result.value :
              2 < Len(last.result.value[i].name) /\ Len(last.result.value[i].name) < 100

\* the layers collected one credit in two spellings, and one was returned
C23_Witness ==
    /\ last.op = "fetch_credits"
    /\ last.result.value # <<>>
    /\ \E i, j \in DOMAIN Collected(last.page) :
          /\ i # j
          /\ Collected(last.page)[i].name # Collected(last.page)[j].name
          /\ LowerStr(Collected(last.page)[i].name) = LowerStr(Collected(last.page)[j].name)
          /\ Collected(last.page)[i].role = Collected(last.page)[j].role

\* the song resources a catalog serves in its playlists, albums and search
\* results
CatalogSongs(catalog) ==
    UNION ( { { catalog.playlists[pid].items[i]
                : i \in DOMAIN catalog.playlists[pid].items }
              : pid \in DOMAIN catalog.playlists }
            \cup { { catalog.charts.albums[a].items[i]
                     : i \in DOMAIN catalog.charts.albums[a].items }
                   : a \in DOMAIN catalog.charts.albums }
            \cup { { catalog.search[term].items[i]
                     : i \in DOMAIN catalog.search[term].items }
                   : term \in DOMAIN catalog.search } )

\* C33: every track that discover_all_spatial_audio_tracks returns has an
\* external id that is not empty and is, but for the region data attached
\* to it, the track information of a song of the catalog that
\* check_spatial_audio_support classified as spatial
C33_OnlySpatialWithId ==
    last.op = "discover_all_spatial_audio_tracks" =>
        \A i \in DOMAIN last.batch :
            /\ last.batch[i].apple_music_id \notin {NULL, ""}
            /\ \E song \in CatalogSongs(last.catalog) :
                  /\ ~Raises(song)
                  /\ check_spatial_audio_support(song).has_spatial_audio
                  /\ [last.batch[i] EXCEPT !.region_availability = NoRegions]
                        = _extract_track_info(song, check_spatial_audio_support(song), 1)

\* the catalog served a song without a spatial signal and a spatial song
\* without an id, and discovery returned neither
C33_Witness ==
    /\ last.op = "discover_all_spatial_audio_tracks"
    /\ last.batch # <<>>
    /\ \E song \in CatalogSongs(last.catalog) :
          /\ ~Raises(song)
          /\ song.id # NULL
          /\ ~check_spatial_audio_support(song).has_spatial_audio
          /\ \A i \in DOMAIN last.batch :
                [last.batch[i] EXCEPT !.region_availability = NoRegions]
                   # _extract_track_info(song, check_spatial_audio_support(song), 1)
    /\ \E song \in CatalogSongs(last.catalog) :
          /\ ~Raises(song)
          /\ song.id = NULL
          /\ check_spatial_audio_support(song).has_spatial_audio

\* the fetch of storefront number sf failed: _make_request answered None
FetchFailed(catalog, sf) == catalog.songs[TARGET_STOREFRONTS[sf]].status # "ok"

\* C35: a failed catalog fetch for a storefront and chunk adds no record of
\* that storefront to the ids of the chunk, so that no id is marked
\* unavailable in a storefront because of a network error.
C35_FailureIsNoData ==
    last.op = "check_region_availability" =>
        \A pos \in DOMAIN last.track_ids : \A sf \in DOMAIN TARGET_STOREFRONTS :
            FetchFailed(last.catalog, sf) =>
                RecordsOf(last.result[last.track_ids[pos]], TARGET_STOREFRONTS[sf]) = {}

\* the ids of one chunk were checked, the fetch failed in one storefront, and
\* another storefront holds the first id
C35_Witness ==
    /\ last.op = "check_region_availability"
    /\ last.track_ids # <<>>
    /\ Len(last.track_ids) <= chunk_size
    /\ \E sf \in DOMAIN TARGET_STOREFRONTS : FetchFailed(last.catalog, sf)
    /\ \E n \in DOMAIN last.result[last.track_ids[1]] :
          last.result[last.track_ids[1]][n].is_available

(***************************************************************************)
(* Properties of GateSpec                                                  *)
(***************************************************************************)
\* C22: any two consecutive page requests of the scraper are at least
\* MIN_DELAY seconds apart, also when different runs of the credits job
\* issue them
C22_MinDelay ==
    (last.op = "credits_gate" /\ last.previous # NoRequest) =>
        last.latest.at - last.previous.at >= MIN_DELAY

\* two consecutive page requests that different runs issued
C22_Witness ==
    /\ last.op = "credits_gate"
    /\ last.previous # NoRequest
    /\ last.latest.of # last.previous.of

(***************************************************************************)
(* Properties of JobSpec                                                   *)
(***************************************************************************)
\* the tracks of a credits run whose iterations ended with their commit
DoneTracks(call) ==
    IF call.fail = 0 THEN DOMAIN call.todo ELSE 1..(call.fail - 1)

\* the TrackCredit rows of a track, as engineer name and role
CreditsOf(track_id) ==
    { [name |-> db_engineers[db_credits[c].engineer_id].name,
       role |-> db_credits[c].role]
      : c \in { x \in DOMAIN db_credits : db_credits[x].track_id = track_id } }

Scraped(credits_data) ==
    { [name |-> credits_data[i].name, role |-> credits_data[i].role]
      : i \in DOMAIN credits_data }

\* C27: when the k-th track of a credits run fails, the rows of the tracks
\* before it are in the tables, the failing track and the tracks after it
\* have no row, an engineer that only they name is in no row, and the rows
\* from before the run are as they were
C27_CommitPerTrack ==
    last.op = "scheduled_credits_fetch" =>
        /\ \A k \in DoneTracks(last) :
              CreditsOf(last.todo[k]) = Scraped(last.scraped[k])
        /\ \A k \in DOMAIN last.todo \ DoneTracks(last) :
              CreditsOf(last.todo[k]) = {}
        /\ { db_engineers[e].name : e \in DOMAIN db_engineers }
              = { last.before.engineers[e].name : e \in DOMAIN last.before.engineers }
                \cup UNION { { c.name : c \in Scraped(last.scraped[k]) }
                             : k \in DoneTracks(last) }
        /\ Len(db_engineers) >= Len(last.before.engineers)
        /\ SubSeq(db_engineers, 1, Len(last.before.engineers)) = last.before.engineers
        /\ Len(db_credits) >= Len(last.before.credits)
        /\ SubSeq(db_credits, 1, Len(last.before.credits)) = last.before.credits

\* the third track of a run failed after its credits were scraped; the two
\* tracks before it had credits, and an earlier run had left rows
C27_Witness ==
    /\ last.op = "scheduled_credits_fetch"
    /\ last.fail = 3
    /\ \A k \in 1..3 : last.scraped[k] # <<>>
    /\ last.before.credits # <<>>

\* what the re-fetch of a stored row gives in a silent-upgrade run
Refetched(call, track) ==
    get_catalog_tracks(call.store, <<track.apple_music_id>>)

\* the rows a silent-upgrade run re-checks
Rechecked(call, track) ==
    /\ track.format # "Dolby Atmos"
    /\ track.apple_music_id \notin {NULL, ""}

RecheckFails(call, track) ==
    /\ Rechecked(call, track)
    /\ Refetched(call, track) # <<>>
    /\ Raises(Refetched(call, track)[1])

UpgradeShown(call, track) ==
    /\ Rechecked(call, track)
    /\ Refetched(call, track) # <<>>
    /\ ~Raises(Refetched(call, track)[1])
    /\ check_spatial_audio_support(Refetched(call, track)[1]).has_dolby_atmos

\* C28: in a silent-upgrade run whose commit succeeds, every re-checked
\* track that shows Atmos is stored as Dolby Atmos with the time of the run,
\* whether or not the re-check of another track failed; a track whose
\* re-fetch fails, is empty or shows no Atmos is stored as it was
C28_RecheckFailures ==
    last.op = "scheduled_silent_upgrade_check" =>
        /\ Len(db_tracks) = Len(last.before.tracks)
        /\ \A i \in DOMAIN last.before.tracks :
              IF UpgradeShown(last, last.before.tracks[i]) /\ ~last.commitFails
              THEN db_tracks[i] =
                      [last.before.tracks[i] EXCEPT
                          !.format = "Dolby Atmos",
                          !.atmos_release_date = DT(last.now),
                          !.updated_at = DT(last.now)]
              ELSE UpgradeShown(last, last.before.tracks[i])
                   \/ /\ db_tracks[i].format = last.before.tracks[i].format
                      /\ db_tracks[i].atmos_release_date
                            = last.before.tracks[i].atmos_release_date
                      /\ db_tracks[i].updated_at = last.before.tracks[i].updated_at

\* the re-check of a track failed, and a track before it and a track after
\* it were upgraded; the re-fetch of another track was empty and another
\* showed no Atmos
C28_Witness ==
    /\ last.op = "scheduled_silent_upgrade_check"
    /\ ~last.commitFails
    /\ \E i, j, k \in DOMAIN db_tracks :
          /\ i < j /\ j < k
          /\ RecheckFails(last, last.before.tracks[j])
          /\ \A x \in {i, k} : /\ UpgradeShown(last, last.before.tracks[x])
                               /\ db_tracks[x].format = "Dolby Atmos"
    /\ \E i, j \in DOMAIN db_tracks :
          /\ Rechecked(last, last.before.tracks[i])
          /\ Refetched(last, last.before.tracks[i]) = <<>>
          /\ Rechecked(last, last.before.tracks[j])
          /\ Refetched(last, last.before.tracks[j]) # <<>>
          /\ ~RecheckFails(last, last.before.tracks[j])
          /\ ~UpgradeShown(last, last.before.tracks[j])
\* the rows of a table with an entry's title and artist
RowsOf(rows, track_data) ==
    { i \in DOMAIN rows : /\ rows[i].title = track_data.title
                          /\ rows[i].artist = track_data.artist }

\* C29: an import that ends without an error has added a row only where no
\* row, stored before the import or added earlier by it, had the title and
\* artist; it adds no row when the rows of all its entries are stored; and
\* into an empty table it puts each title and artist of the input on
\* exactly one row
C29_ImportDedup ==
    (last.op = "import_existing_data_json" /\ ~last.raised) =>
        /\ \A i \in DOMAIN db_tracks :
              i > Len(last.before.tracks) =>
                  \A j \in 1..(i - 1) :
                      ~ /\ db_tracks[j].title = db_tracks[i].title
                        /\ db_tracks[j].artist = db_tracks[i].artist
        /\ (\A e \in DOMAIN last.tracks_data :
               RowsOf(last.before.tracks, last.tracks_data[e]) # {})
              => db_tracks = last.before.tracks
        /\ last.before.tracks = <<>> =>
              \A e \in DOMAIN last.tracks_data :
                  Cardinality(RowsOf(db_tracks, last.tracks_data[e])) = 1

\* a file that has a title and artist twice has been imported into an empty
\* table
C29_Witness ==
    /\ last.op = "import_existing_data_json"
    /\ ~last.raised
    /\ last.before.tracks = <<>>
    /\ \E i, j \in DOMAIN last.tracks_data :
          /\ i # j
          /\ last.tracks_data[i].title = last.tracks_data[j].title
          /\ last.tracks_data[i].artist = last.tracks_data[j].artist
\* a row that is, in the tables before a run, a Dolby Atmos track with a
\* music link and no TrackCredit row
NeedsCredits(before, track_id) ==
    /\ track_id \in DOMAIN before.tracks
    /\ before.tracks[track_id].format = "Dolby Atmos"
    /\ before.tracks[track_id].music_link # NULL
    /\ \A c \in DOMAIN before.credits : before.credits[c].track_id # track_id

\* C30: a credits run scrapes at most 5 tracks, no track twice, and each of
\* them was, when the run selected it, a Dolby Atmos track with a music link
\* and no TrackCredit row
C30_CreditsBatch ==
    last.op = "scheduled_credits_fetch" =>
        /\ Len(last.todo) <= 5
        /\ \A i, j \in DOMAIN last.todo : last.todo[i] = last.todo[j] => i = j
        /\ \A k \in DOMAIN last.todo : NeedsCredits(last.before, last.todo[k])

\* a run has scraped 5 tracks and left out a track that needed credits, an
\* Atmos track without a link and a track of another format
C30_Witness ==
    /\ last.op = "scheduled_credits_fetch"
    /\ last.fail = 0
    /\ Len(last.todo) = 5
    /\ \E i, j, k \in DOMAIN last.before.tracks :
          /\ \A x \in DOMAIN last.todo : last.todo[x] \notin {i, j, k}
          /\ NeedsCredits(last.before, i)
          /\ last.before.tracks[j].format = "Dolby Atmos"
          /\ last.before.tracks[j].music_link = NULL
          /\ last.before.tracks[k].format # "Dolby Atmos"
(***************************************************************************)
(* Properties of TokenSpec                                                 *)
(***************************************************************************)
\* the cached token is usable at a call: there is one, and the call is
\* more than the buffer before its expiry
CacheFresh(cache, current_time) ==
    /\ cache.cached_token # NoJwt
    /\ current_time < 2 * (cache.token_expires_at - token_buffer)

\* C31: a call returns the cached token, and leaves the cache, exactly
\* when the time of the call is more than an hour before the cached expiry;
\* otherwise it returns a token made at the call and caches it with its
\* expiry, or, with credentials missing, raises and leaves the cache; a
\* token it returns expires more than 3600 s after the call
C31_TokenCache ==
    (last.op = "token" /\ last.called) =>
        /\ CacheFresh(last.before, last.now) =>
              /\ ~last.raised
              /\ last.value = last.before.cached_token
              /\ last.cache = last.before
        /\ (~CacheFresh(last.before, last.now) /\ ~Unavailable(last.env)) =>
              /\ ~last.raised
              /\ last.value # last.before.cached_token
              /\ last.value.iat * 2 <= last.now
              /\ last.now < last.value.iat * 2 + 2
              /\ last.cache = [cached_token |-> last.value,
                               token_expires_at |-> last.value.exp]
        /\ (~CacheFresh(last.before, last.now) /\ Unavailable(last.env)) =>
              /\ last.raised
              /\ last.cache = last.before
        /\ ~last.raised => 2 * last.value.exp - last.now > 2 * 3600

\* a call half a second before the buffer starts has returned the cached
\* token
C31_Witness ==
    /\ last.op = "token"
    /\ last.called
    /\ ~last.raised
    /\ last.before.cached_token # NoJwt
    /\ last.value = last.before.cached_token
    /\ last.now = 2 * (last.before.token_expires_at - 3600) - 1
    /\ Unavailable(last.env)

(***************************************************************************)
(* Properties of PageSpec                                                  *)
(***************************************************************************)
\* C32: in a get_playlist_tracks call every follow-up request asks with a
\* smaller remaining limit than the request before it, and the call sends
\* no more requests than the caller's limit, whatever the responses are
C32_PaginationBounded ==
    last.op = "page" =>
        /\ Len(last.requests) <= last.caller_limit
        /\ \A i \in DOMAIN last.requests :
              i > 1 => last.requests[i].remaining < last.requests[i - 1].remaining

\* a page without tracks that carried a next cursor has been answered with
\* a follow-up request
C32_Witness ==
    /\ last.op = "page"
    /\ \E i \in DOMAIN last.responses :
          /\ last.responses[i] = Page(0, TRUE)
          /\ i < Len(last.requests)

(***************************************************************************)
(* Properties of LiveSpec                                                  *)
(***************************************************************************)
\* C36: under repeated credits runs every Dolby Atmos track with a music
\* link and no credits is eventually selected and scraped by some run.
C36_NoStarvation ==
    \A track_id \in 1..(credits_limit + 3) :
        NeedsCredits(Database, track_id) ~> (track_id \in last.scraped)

\* a run has selected five tracks, no page has yielded a credit yet, and a
\* sixth track needs credits and has never been scraped
C36_Witness ==
    /\ last.op = "credits_runs"
    /\ Len(last.todo) = credits_limit
    /\ db_credits = <<>>
    /\ last.phase = 1
    /\ \E track_id \in DOMAIN db_tracks :
          /\ NeedsCredits(Database, track_id)
          /\ track_id \notin last.scraped

(***************************************************************************)
(* Properties of LifeSpec                                                  *)
(***************************************************************************)
\* the schedulers whose thread runs
RunningSchedulers(s) == { k \in DOMAIN s.made : s.made[k].running }

\* the ids and intervals of a scheduler's jobs
JobTable(jobs) == [i \in DOMAIN jobs |-> <<jobs[i].id, jobs[i].trigger>>]

\* C39: at most one scheduler runs at any time, and it is the one the global
\* names; start_scheduler while one runs changes nothing and registers no
\* job; stop_scheduler with none running changes nothing; and a running
\* scheduler holds exactly the jobs spatial_audio_scan every 48 hours,
\* silent_upgrade_check every 7 days and credits_fetch every 5 minutes.
C39_SchedulerLifecycle ==
    [][ /\ Cardinality(RunningSchedulers(scheduler')) <= 1
        /\ RunningSchedulers(scheduler') = {scheduler'.ref} \ {0}
        /\ (last' # last /\ last'.op = "start_scheduler" /\ scheduler.ref # 0)
              => scheduler' = scheduler
        /\ (last' # last /\ last'.op = "stop_scheduler" /\ scheduler.ref = 0)
              => scheduler' = scheduler
        /\ \A k \in RunningSchedulers(scheduler') :
              JobTable(scheduler'.made[k].jobs)
                 = << <<"spatial_audio_scan", 48 * 60>>,
                      <<"silent_upgrade_check", 7 * 24 * 60>>,
                      <<"credits_fetch", 5>> >> ]_vars

\* start_scheduler has been called while the second scheduler made was
\* running, after the first had been stopped
C39_Witness ==
    /\ last.op = "start_scheduler"
    /\ last.found
    /\ scheduler.ref = 2
    /\ ~scheduler.made[1].running
    /\ scheduler.made[2].running
    /\ \E i \in DOMAIN scheduler.made[2].jobs : scheduler.made[2].jobs[i].fired > 0

=============================================================================
